---- MODULE Spec2Model ----
(***************************************************************************)
(* graphlint: schema -> validation plan (IR) -> queries -> report.         *)
(*                                                                         *)
(* Python strings that the code inspects character by character (IRIs,     *)
(* labels, property and relationship names) are sequences of one-character *)
(* strings.  Strings that the code only builds and compares (check ids,    *)
(* messages) are TLA+ strings built with \o.  A compiled query is a        *)
(* sequence of tokens, so that startswith("//") can be evaluated.          *)
(* Optional[T] values are <<>> (None) or <<v>>.                            *)
(***************************************************************************)
EXTENDS Integers, Sequences, FiniteSets, TLC

\* ------------------------------------------------------------------------
\* Bounds of the model
\* ------------------------------------------------------------------------
MaxPlanLen == 2
MaxConstraints == 2

\* ------------------------------------------------------------------------
\* Python helpers
\* ------------------------------------------------------------------------
None == <<>>
Some(v) == <<v>>
IsNone(o) == o = <<>>
Val(o) == o[1]

Range(s) == {s[i] : i \in 1..Len(s)}

\* A Python value whose type the code tests: a str (a character sequence), an
\* int or a bool.
PyStr(chars) == [py |-> "str", v |-> chars]
PyInt(n) == [py |-> "int", v |-> n]
PyBool(b) == [py |-> "bool", v |-> b]

RECURSIVE Join(_)
\* "".join(chars)
Join(cs) == IF cs = <<>> THEN "" ELSE Head(cs) \o Join(Tail(cs))

RECURSIVE Flatten(_)
\* concatenation of a sequence of sequences (list.extend in a loop)
Flatten(ss) == IF ss = <<>> THEN <<>> ELSE Head(ss) \o Flatten(Tail(ss))

UpperAlpha == <<"A","B","C","D","E","F","G","H","I","J","K","L","M",
                "N","O","P","Q","R","S","T","U","V","W","X","Y","Z">>
LowerAlpha == <<"a","b","c","d","e","f","g","h","i","j","k","l","m",
                "n","o","p","q","r","s","t","u","v","w","x","y","z">>

\* repr() of a Python value
Repr(v) ==
    IF v.py = "str" THEN "'" \o Join(v.v) \o "'"
    ELSE IF v.py = "bool" THEN (IF v.v THEN "True" ELSE "False")
    ELSE ToString(v.v)

\* str.isupper / str.upper / str.lower on one character
IsUpperCh(c) == \E i \in 1..Len(UpperAlpha) : UpperAlpha[i] = c
UpperCh(c) == IF \E i \in 1..Len(LowerAlpha) : LowerAlpha[i] = c
              THEN UpperAlpha[CHOOSE i \in 1..Len(LowerAlpha) : LowerAlpha[i] = c]
              ELSE c
LowerCh(c) == IF \E i \in 1..Len(UpperAlpha) : UpperAlpha[i] = c
              THEN LowerAlpha[CHOOSE i \in 1..Len(UpperAlpha) : UpperAlpha[i] = c]
              ELSE c
\* str.lower() of a name, as a string
Lower(name) == Join([i \in 1..Len(name) |-> LowerCh(name[i])])

\* ------------------------------------------------------------------------
\* parser.py: Severity, CheckType, Check, RelationshipTarget
\* ------------------------------------------------------------------------
VIOLATION == "violation"
WARNING == "warning"
INFO == "info"
Severity == {VIOLATION, WARNING, INFO}

\* The members the CheckType enum of parser.py declares.
CheckTypeDeclared ==
    {"property_exists", "property_type", "property_value_in",
     "relationship_cardinality", "relationship_endpoint", "closed_shape",
     "undeclared_labels", "undeclared_relationship_types",
     "undeclared_properties", "empty_shape"}
\* The members that shacl_parser.py, gql.py and runner.py use in addition
\* (spec section 3 lists them among the closed set of check kinds).
CheckTypeExtended ==
    {"property_pattern", "property_string_length", "property_range",
     "property_pair", "qualified_cardinality", "logical_not", "logical_and",
     "logical_or", "logical_xone", "unique_lang"}
CheckType == CheckTypeDeclared \cup CheckTypeExtended

RelationshipTarget(type, direction, target_label) ==
    [type |-> type, direction |-> direction, target_label |-> target_label]

\* A Check with every kind-specific field at its dataclass default.
Check(id, type, shape, target_label, severity, message) ==
    [id |-> id, type |-> type, shape |-> shape, target_label |-> target_label,
     severity |-> severity, message |-> message,
     property |-> None, expected_type |-> None, allowed_values |-> None,
     only_if_exists |-> FALSE,
     relationship |-> None, min_count |-> None, max_count |-> None,
     allowed_properties |-> None, allowed_relationships |-> None,
     acceptable_labels |-> None, sub_checks |-> None,
     qualified_filter |-> None, qualified_min |-> None, qualified_max |-> None,
     pattern |-> None, pattern_flags |-> None,
     min_length |-> None, max_length |-> None,
     min_inclusive |-> None, max_inclusive |-> None,
     min_exclusive |-> None, max_exclusive |-> None,
     compare_property |-> None, comparison_type |-> None,
     default_value |-> None, display_order |-> None]

\* ------------------------------------------------------------------------
\* parser.py: Mapping
\* ------------------------------------------------------------------------
\* A Mapping is a record of three override tables, each a function from
\* IRIs (character sequences) to names (character sequences).
EmptyTable == [x \in {} |-> <<>>]
Mapping(c2l, p2r, p2p) ==
    [classes_to_labels |-> c2l, predicates_to_relationships |-> p2r,
     predicates_to_properties |-> p2p]

Contains(iri, ch) == \E i \in 1..Len(iri) : iri[i] = ch
LastIndex(iri, ch) == CHOOSE i \in 1..Len(iri) :
                          iri[i] = ch /\ \A j \in (i+1)..Len(iri) : iri[j] # ch
AfterLast(iri, ch) == SubSeq(iri, LastIndex(iri, ch) + 1, Len(iri))

\* "#" in iri: iri.rsplit("#", 1)[1]; else iri.rsplit("/", 1)[-1]
local_name(iri) ==
    IF Contains(iri, "#") THEN AfterLast(iri, "#")
    ELSE IF Contains(iri, "/") THEN AfterLast(iri, "/")
    ELSE iri

\* "_" before every upper-case character but the first, all upper-cased
to_upper_snake(name) ==
    Flatten([i \in 1..Len(name) |->
        IF IsUpperCh(name[i]) /\ i > 1 THEN <<"_", UpperCh(name[i])>>
        ELSE <<UpperCh(name[i])>>])

\* label_for that falls back on the property overrides before the convention
label_for_any_table(m, iri) ==
    IF iri \in DOMAIN m.classes_to_labels THEN m.classes_to_labels[iri]
    ELSE IF iri \in DOMAIN m.predicates_to_properties
    THEN m.predicates_to_properties[iri]
    ELSE local_name(iri)

label_for(m, iri) ==
    IF iri \in DOMAIN m.classes_to_labels THEN m.classes_to_labels[iri]
    ELSE local_name(iri)

property_for(m, iri) ==
    IF iri \in DOMAIN m.predicates_to_properties
    THEN m.predicates_to_properties[iri]
    ELSE local_name(iri)

relationship_for(m, iri) ==
    IF iri \in DOMAIN m.predicates_to_relationships
    THEN m.predicates_to_relationships[iri]
    ELSE to_upper_snake(local_name(iri))

\* LPG type names
T_string == <<"s","t","r","i","n","g">>
T_integer == <<"i","n","t","e","g","e","r">>
T_float == <<"f","l","o","a","t">>
T_boolean == <<"b","o","o","l","e","a","n">>
T_date == <<"d","a","t","e">>
T_datetime == <<"d","a","t","e","t","i","m","e">>

\* XSD_TO_LPG_TYPE: datatype IRI -> LPG type name
XSD == <<"h","t","t","p",":","/","/","w","w","w",".","w",
         "3",".","o","r","g","/","2","0","0","1","/","X",
         "M","L","S","c","h","e","m","a","#">>
XsdIri(local) == XSD \o local
XsdTable ==
    {<<XsdIri(<<"s","t","r","i","n","g">>), T_string>>,
     <<XsdIri(<<"i","n","t","e","g","e","r">>), T_integer>>,
     <<XsdIri(<<"i","n","t">>), T_integer>>,
     <<XsdIri(<<"l","o","n","g">>), T_integer>>,
     <<XsdIri(<<"f","l","o","a","t">>), T_float>>,
     <<XsdIri(<<"d","o","u","b","l","e">>), T_float>>,
     <<XsdIri(<<"d","e","c","i","m","a","l">>), T_float>>,
     <<XsdIri(<<"b","o","o","l","e","a","n">>), T_boolean>>,
     <<XsdIri(<<"d","a","t","e">>), T_date>>,
     <<XsdIri(<<"d","a","t","e","T","i","m","e">>), T_datetime>>}
InXsdTable(dt) == \E e \in XsdTable : e[1] = dt
XsdLookup(dt) == (CHOOSE e \in XsdTable : e[1] = dt)[2]


\* ------------------------------------------------------------------------
\* parser.py: the ShExC parser, over the ShExJ tree pyshexc returns
\* ------------------------------------------------------------------------
\* A value expression is absent ([py |-> "none"]), a bare IRI string
\* ([py |-> "str", s |-> iri]) or a dict ([py |-> "dict", type, id, datatype,
\* values], each of the last three optional).
NoValueExpr == [py |-> "none"]
ShapeRefExpr(iri) == [py |-> "str", s |-> iri]
DictExpr(type, id, datatype, values) ==
    [py |-> "dict", type |-> type, id |-> id, datatype |-> datatype,
     values |-> values]

\* A triple constraint: tc.get("min", 1) and tc.get("max", 1) read optional keys.
TripleConstraint(predicate, valueExpr, min, max) ==
    [type |-> "TripleConstraint", predicate |-> predicate,
     valueExpr |-> valueExpr, min |-> min, max |-> max]
EachOf(expressions) == [type |-> "EachOf", expressions |-> expressions]

is_shape_reference(value_expr) ==
    IF value_expr.py = "str" THEN TRUE
    ELSE IF value_expr.py = "dict"
         THEN IF value_expr.type = "NodeConstraint" THEN FALSE
              ELSE value_expr.type \in {"ShapeRef", "Shape"}
    ELSE FALSE

\* One value of a ShExJ value set: a bare string, or a dict whose "value" is
\* coerced to a number when its "type" names a numeric datatype and the text
\* parses (coerced holds the parsed value, None when int()/float() raise).
extract_value(v) ==
    IF v.isdict
    THEN IF v.numeric_type /\ ~IsNone(v.coerced) THEN PyInt(Val(v.coerced))
         ELSE PyStr(v.value)
    ELSE PyStr(v.value)
extract_value_set(values) == [i \in 1..Len(values) |-> extract_value(values[i])]

\* str() of a Python list of strings, as the messages embed it
RECURSIVE ReprItems(_)
ReprItems(vs) ==
    IF vs = <<>> THEN ""
    ELSE IF Len(vs) = 1 THEN Repr(Head(vs))
    ELSE Repr(Head(vs)) \o ", " \o ReprItems(Tail(vs))
ListRepr(vs) == "[" \o ReprItems(vs) \o "]"

rel_cardinality_message(source, rel_type, target, min_c, max_c) ==
    LET s == Join(source)
        r == Join(rel_type)
        t == Join(target)
    IN  IF min_c = 0 /\ max_c = Some(1)
        THEN s \o " may have at most one " \o r \o " relationship to " \o t
        ELSE IF min_c = 1 /\ max_c = Some(1)
        THEN s \o " must have exactly one " \o r \o " relationship to " \o t
        ELSE IF min_c = 1 /\ IsNone(max_c)
        THEN s \o " must have at least one " \o r \o " relationship to " \o t
        ELSE IF min_c = 0 /\ IsNone(max_c)
        THEN s \o " may have zero or more " \o r \o " relationships to " \o t
        ELSE s \o " must have " \o ToString(min_c) \o ".."
               \o (IF IsNone(max_c) THEN "inf" ELSE ToString(Val(max_c)))
               \o " " \o r \o " relationships to " \o t

\* XSD_TO_LPG_TYPE.get(datatype, datatype)
shexc_lpg_type(datatype) ==
    IF InXsdTable(datatype) THEN XsdLookup(datatype) ELSE datatype

process_triple_constraint(tc, shape_id, label, mapping) ==
    LET value_expr == tc.valueExpr
        min_card == IF IsNone(tc.min) THEN 1 ELSE Val(tc.min)
        max_raw == IF IsNone(tc.max) THEN 1 ELSE Val(tc.max)
        max_card == IF max_raw = -1 THEN None ELSE Some(max_raw)
        is_optional == min_card = 0
        is_relationship == is_shape_reference(value_expr)
    IN  IF is_relationship
        THEN LET target_shape_iri ==
                     IF value_expr.py = "str" THEN value_expr.s
                     ELSE IF IsNone(value_expr.id) THEN <<>> ELSE Val(value_expr.id)
                 target_label == label_for(mapping, target_shape_iri)
                 rel_type == relationship_for(mapping, tc.predicate)
                 check_id == Lower(label) \o "-" \o Lower(rel_type) \o "-cardinality"
             IN  << [Check(check_id, "relationship_cardinality", Some(shape_id), label,
                           VIOLATION,
                           rel_cardinality_message(label, rel_type, target_label,
                                                   min_card, max_card))
                     EXCEPT !.relationship =
                                Some(RelationshipTarget(rel_type, "outgoing", target_label)),
                            !.min_count = Some(min_card),
                            !.max_count = max_card] >>
        ELSE LET prop_name == property_for(mapping, tc.predicate)
                 p == Join(prop_name)
                 exists ==
                     IF ~is_optional
                     THEN << [Check(Lower(label) \o "-" \o p \o "-exists",
                                    "property_exists", Some(shape_id), label, VIOLATION,
                                    Join(label) \o " node missing required '" \o p
                                        \o "' property")
                              EXCEPT !.property = Some(prop_name)] >>
                     ELSE <<>>
                 dtype ==
                     IF value_expr.py = "dict" /\ ~IsNone(value_expr.datatype)
                     THEN LET lpg_type == shexc_lpg_type(Val(value_expr.datatype))
                          IN << [Check(Lower(label) \o "-" \o p \o "-type",
                                       "property_type", Some(shape_id), label, VIOLATION,
                                       Join(label) \o "." \o p \o " must be of type "
                                           \o Join(lpg_type))
                                 EXCEPT !.property = Some(prop_name),
                                        !.expected_type = Some(lpg_type),
                                        !.only_if_exists = is_optional] >>
                     ELSE <<>>
                 vals ==
                     IF value_expr.py = "dict" /\ ~IsNone(value_expr.values)
                        /\ Val(value_expr.values) # <<>>
                     THEN LET allowed == extract_value_set(Val(value_expr.values))
                          IN << [Check(Lower(label) \o "-" \o p \o "-values",
                                       "property_value_in", Some(shape_id), label,
                                       VIOLATION,
                                       Join(label) \o "." \o p \o " must be one of: "
                                           \o ListRepr(allowed))
                                 EXCEPT !.property = Some(prop_name),
                                        !.allowed_values = Some(allowed),
                                        !.only_if_exists = is_optional] >>
                     ELSE <<>>
             IN  exists \o dtype \o vals

RECURSIVE process_expression(_, _, _, _)
process_expression(expr, shape_id, label, mapping) ==
    IF expr.type = "EachOf"
    THEN Flatten([i \in 1..Len(expr.expressions) |->
             process_expression(expr.expressions[i], shape_id, label, mapping)])
    ELSE IF expr.type = "TripleConstraint"
    THEN process_triple_constraint(expr, shape_id, label, mapping)
    ELSE <<>>

\* ------------------------------------------------------------------------
\* parser.py: strict mode checks
\* ------------------------------------------------------------------------
\* Code points order digits < upper case < "_" < lower case.
CodeOrder == <<"*","-",".","/","0","1","2","3","4","5","6","7","8","9",":">>
             \o UpperAlpha \o <<"_">> \o LowerAlpha
Code(c) == IF \E i \in 1..Len(CodeOrder) : CodeOrder[i] = c
           THEN CHOOSE i \in 1..Len(CodeOrder) : CodeOrder[i] = c
           ELSE 0
RECURSIVE StrLess(_, _)
\* a < b for Python strings
StrLess(a, b) ==
    IF a = <<>> THEN b # <<>>
    ELSE IF b = <<>> THEN FALSE
    ELSE IF Code(Head(a)) # Code(Head(b)) THEN Code(Head(a)) < Code(Head(b))
    ELSE StrLess(Tail(a), Tail(b))
RECURSIVE Sorted(_)
\* sorted(set_of_strings)
Sorted(S) ==
    IF S = {} THEN <<>>
    ELSE LET m == CHOOSE a \in S : \A b \in S \ {a} : StrLess(a, b)
         IN  <<m>> \o Sorted(S \ {m})

RECURSIVE Dedup(_)
\* the items of a sequence in first-occurrence order, each once
Dedup(s) ==
    IF s = <<>> THEN <<>>
    ELSE LET front == Dedup(SubSeq(s, 1, Len(s) - 1))
             last == s[Len(s)]
         IN  IF last \in Range(front) THEN front ELSE Append(front, last)

SelectIdx(s, Keep(_)) ==
    LET F[i \in 0..Len(s)] ==
            IF i = 0 THEN <<>>
            ELSE IF Keep(s[i]) THEN Append(F[i-1], s[i]) ELSE F[i-1]
    IN  F[Len(s)]

StrList(names) == [i \in 1..Len(names) |-> PyStr(names[i])]
NamesRepr(names) == ListRepr(StrList(names))

\* props_by_label.get(label, []): the properties of the checks on label, in
\* first-occurrence order
declared_props(existing_checks, label) ==
    LET HasProp(c) == ~IsNone(c.property) /\ Val(c.property) # <<>>
                      /\ c.target_label # <<>> /\ c.target_label = label
        on_label == SelectIdx(existing_checks, HasProp)
    IN  Dedup([i \in 1..Len(on_label) |-> Val(on_label[i].property)])

generate_strict_checks(shape_iris, existing_checks, mapping) ==
    LET declared_labels == [i \in 1..Len(shape_iris) |-> label_for(mapping, shape_iris[i])]
        declared_rels ==
            Sorted({Val(c.relationship).type :
                       c \in {d \in Range(existing_checks) : ~IsNone(d.relationship)}})
        labels_check ==
            [Check("strict-undeclared-labels", "undeclared_labels", None, <<"*">>, WARNING,
                   "Database contains node labels not declared in schema. Declared: "
                       \o NamesRepr(declared_labels))
             EXCEPT !.allowed_values = Some(StrList(declared_labels))]
        rels_check ==
            [Check("strict-undeclared-rel-types", "undeclared_relationship_types", None,
                   <<"*">>, WARNING,
                   "Database contains relationship types not declared in schema. Declared: "
                       \o NamesRepr(declared_rels))
             EXCEPT !.allowed_relationships = Some(declared_rels)]
        props_check(label) ==
            LET props == declared_props(existing_checks, label)
            IN  [Check("strict-" \o Lower(label) \o "-undeclared-props",
                       "undeclared_properties", None, label, WARNING,
                       Join(label) \o " nodes have properties not declared in schema. Declared: "
                           \o NamesRepr(props))
                 EXCEPT !.allowed_properties = Some(props)]
        empty_check(label) ==
            Check("strict-" \o Lower(label) \o "-empty", "empty_shape", None, label,
                  WARNING,
                  "Schema declares " \o Join(label) \o " but no " \o Join(label)
                      \o " nodes exist in the database")
    IN  <<labels_check, rels_check>>
        \o [i \in 1..Len(declared_labels) |-> props_check(declared_labels[i])]
        \o [i \in 1..Len(declared_labels) |-> empty_check(declared_labels[i])]

ValidationPlan(source, checks, shapes, mapping) ==
    [schema_source |-> source, checks |-> checks, shapes |-> shapes, mapping |-> mapping]

RECURSIVE AllRequired(_)
\* the expression with every cardinality read as the default {1,1}
AllRequired(expr) ==
    IF expr.type = "EachOf"
    THEN [expr EXCEPT !.expressions =
              [i \in 1..Len(expr.expressions) |-> AllRequired(expr.expressions[i])]]
    ELSE IF expr.type = "TripleConstraint"
    THEN [expr EXCEPT !.min = None, !.max = None]
    ELSE expr
\* parse_shexc_to_plan that ignores the cardinalities the schema states
parse_shexc_to_plan_ignoring_min(schema_json, mapping, strict) ==
    LET shape_iris == [i \in 1..Len(schema_json) |-> schema_json[i].id]
        shape_checks(shape) ==
            IF IsNone(shape.expression) THEN <<>>
            ELSE process_expression(AllRequired(Val(shape.expression)), shape.id,
                                    label_for(mapping, shape.id), mapping)
        checks == Flatten([i \in 1..Len(schema_json) |-> shape_checks(schema_json[i])])
    IN  ValidationPlan("<string>",
            IF strict THEN checks \o generate_strict_checks(shape_iris, checks, mapping)
            ELSE checks,
            shape_iris, mapping)

\* A ShExJ schema is the sequence of its shapes, each [id, expression] with
\* the expression optional.
parse_shexc_to_plan(schema_json, mapping, strict) ==
    LET shape_iris == [i \in 1..Len(schema_json) |-> schema_json[i].id]
        shape_checks(shape) ==
            IF IsNone(shape.expression) THEN <<>>
            ELSE process_expression(Val(shape.expression), shape.id,
                                    label_for(mapping, shape.id), mapping)
        checks == Flatten([i \in 1..Len(schema_json) |-> shape_checks(schema_json[i])])
    IN  ValidationPlan("<string>",
            IF strict THEN checks \o generate_strict_checks(shape_iris, checks, mapping)
            ELSE checks,
            shape_iris, mapping)

\* ------------------------------------------------------------------------
\* shacl_parser.py, over the graph rdflib returns
\* ------------------------------------------------------------------------
\* The graph is [shapes, subclass]: the node shapes in the order
\* g.subjects(RDF.type, SH.NodeShape) yields them and the rdfs:subClassOf
\* triples <<sub, sup>> in the order g.triples yields them.  A node shape is
\* [iri, targetClass, property, closed, ignoredProperties, not, and, or, xone];
\* an inner shape of a combinator is [property].  A property node holds the
\* value g.value returns for each SHACL predicate, None when absent.
SH_IRI == "sh:IRI"
SH_BlankNodeOrIRI == "sh:BlankNodeOrIRI"
SH_Warning == "sh:Warning"
SH_Info == "sh:Info"

UriPath(iri) == Some([kind |-> "uri", iri |-> iri])
InversePath(iri) == Some([kind |-> "bnode", inverse |-> UriPath(iri)])

PropertyNode(path) ==
    [path |-> path, minCount |-> None, maxCount |-> None, severity |-> None,
     nodeKind |-> None, node |-> None, class |-> None, datatype |-> None,
     in |-> None, hasValue |-> None, pattern |-> None, flags |-> None,
     minLength |-> None, maxLength |-> None,
     minInclusive |-> None, maxInclusive |-> None,
     minExclusive |-> None, maxExclusive |-> None,
     equals |-> None, disjoint |-> None, lessThan |-> None,
     lessThanOrEquals |-> None, uniqueLang |-> None,
     defaultValue |-> None, order |-> None,
     qualifiedValueShape |-> None, qualifiedMinCount |-> None,
     qualifiedMaxCount |-> None]

NodeShape(iri, targetClass, property) ==
    [iri |-> iri, targetClass |-> targetClass, property |-> property,
     closed |-> None, ignoredProperties |-> None,
     not |-> <<>>, and |-> None, or |-> None, xone |-> None]

\* _shacl_severity that knows sh:Warning only
shacl_severity_warning_only(sev_iri) ==
    IF IsNone(sev_iri) THEN VIOLATION
    ELSE IF Val(sev_iri) = SH_Warning THEN WARNING
    ELSE VIOLATION

shacl_severity(sev_iri) ==
    IF IsNone(sev_iri) THEN VIOLATION
    ELSE IF Val(sev_iri) = SH_Warning THEN WARNING
    ELSE IF Val(sev_iri) = SH_Info THEN INFO
    ELSE VIOLATION

\* XSD_TO_LPG_TYPE.get(dt_str, Mapping._local_name(dt_str))
shacl_lpg_type(datatype) ==
    IF InXsdTable(datatype) THEN XsdLookup(datatype) ELSE local_name(datatype)

\* children: for each superclass its direct subclasses, in triple order
children_of(subclass, cls) ==
    LET Under(e) == e[2] = cls
        es == SelectIdx(subclass, Under)
    IN  [i \in 1..Len(es) |-> es[i][1]]

RECURSIVE collect_descendants(_, _)
collect_descendants(cls, subclass) ==
    LET kids == children_of(subclass, cls)
    IN  <<cls>> \o Flatten([i \in 1..Len(kids) |-> collect_descendants(kids[i], subclass)])

\* hierarchy: every class of a subClassOf triple -> the labels of the class and
\* of its transitive subclasses
hierarchy_classes(subclass) == {e[1] : e \in Range(subclass)} \cup {e[2] : e \in Range(subclass)}
build_class_hierarchy(subclass, mapping) ==
    [cls \in hierarchy_classes(subclass) |->
        LET descendants == collect_descendants(cls, subclass)
        IN  [i \in 1..Len(descendants) |-> label_for(mapping, descendants[i])]]

\* _is_relationship_constraint that looks at sh:nodeKind only
is_relationship_by_node_kind(node_kind, sh_node, sh_class, sh_datatype) ==
    ~IsNone(node_kind) /\ Val(node_kind) \in {SH_IRI, SH_BlankNodeOrIRI}

is_relationship_constraint(node_kind, sh_node, sh_class, sh_datatype) ==
    IF ~IsNone(node_kind) THEN Val(node_kind) \in {SH_IRI, SH_BlankNodeOrIRI}
    ELSE IF ~IsNone(sh_node) \/ ~IsNone(sh_class) THEN TRUE
    ELSE FALSE

\* g.value(sh_node, SH.targetClass)
target_class_of(g, sh_node) ==
    LET Is(sp) == sp.iri = sh_node /\ sp.targetClass # <<>>
        hit == SelectIdx(g.shapes, Is)
    IN  IF hit = <<>> THEN None ELSE Some(hit[1].targetClass[1])

\* _relationship_checks that writes an unbounded maximum as -1
relationship_checks_with_sentinel(g, pn, shape_iri, label, predicate_iri, min_count, max_count, severity, mapping, direction, class_hierarchy) ==
    LET rel_type == relationship_for(mapping, predicate_iri)
        target_class_iri ==
            IF ~IsNone(pn.node)
            THEN IF ~IsNone(target_class_of(g, Val(pn.node)))
                 THEN target_class_of(g, Val(pn.node)) ELSE pn.node
            ELSE IF ~IsNone(pn.class) THEN pn.class
            ELSE None
        target_label ==
            IF IsNone(target_class_iri) THEN <<"U","n","k","n","o","w","n">>
            ELSE label_for(mapping, Val(target_class_iri))
        acceptable ==
            IF DOMAIN class_hierarchy # {} /\ ~IsNone(target_class_iri)
               /\ Val(target_class_iri) # <<>>
               /\ Val(target_class_iri) \in DOMAIN class_hierarchy
            THEN Some(class_hierarchy[Val(target_class_iri)])
            ELSE None
    IN  << [Check(Lower(label) \o "-" \o Lower(rel_type) \o "-cardinality",
                  "relationship_cardinality", Some(shape_iri), label, severity,
                  rel_cardinality_message(label, rel_type, target_label,
                                          min_count, max_count))
            EXCEPT !.relationship =
                       Some(RelationshipTarget(rel_type, direction, target_label)),
                   !.min_count = Some(min_count),
                   !.max_count = IF IsNone(max_count) THEN Some(-1) ELSE max_count,
                   !.acceptable_labels = acceptable] >>

relationship_checks(g, pn, shape_iri, label, predicate_iri, min_count, max_count, severity, mapping, direction, class_hierarchy) ==
    LET rel_type == relationship_for(mapping, predicate_iri)
        target_class_iri ==
            IF ~IsNone(pn.node)
            THEN IF ~IsNone(target_class_of(g, Val(pn.node)))
                 THEN target_class_of(g, Val(pn.node)) ELSE pn.node
            ELSE IF ~IsNone(pn.class) THEN pn.class
            ELSE None
        target_label ==
            IF IsNone(target_class_iri) THEN <<"U","n","k","n","o","w","n">>
            ELSE label_for(mapping, Val(target_class_iri))
        acceptable ==
            IF DOMAIN class_hierarchy # {} /\ ~IsNone(target_class_iri)
               /\ Val(target_class_iri) # <<>>
               /\ Val(target_class_iri) \in DOMAIN class_hierarchy
            THEN Some(class_hierarchy[Val(target_class_iri)])
            ELSE None
    IN  << [Check(Lower(label) \o "-" \o Lower(rel_type) \o "-cardinality",
                  "relationship_cardinality", Some(shape_iri), label, severity,
                  rel_cardinality_message(label, rel_type, target_label,
                                          min_count, max_count))
            EXCEPT !.relationship =
                       Some(RelationshipTarget(rel_type, direction, target_label)),
                   !.min_count = Some(min_count),
                   !.max_count = max_count,
                   !.acceptable_labels = acceptable] >>

\* sh:qualifiedValueShape: the filter Check of the inner shape [datatype, class, in]
parse_qualified_filter(qvs, shape_iri, label, prop_name, mapping) ==
    LET p == Join(prop_name)
    IN  IF ~IsNone(qvs.datatype)
        THEN LET lpg_type == shacl_lpg_type(Val(qvs.datatype))
             IN Some([Check(Lower(label) \o "-" \o p \o "-qfilter-type", "property_type",
                            Some(shape_iri), label, VIOLATION,
                            "Qualified filter: type must be " \o Join(lpg_type))
                      EXCEPT !.property = Some(prop_name),
                             !.expected_type = Some(lpg_type)])
        ELSE IF ~IsNone(qvs.class)
        THEN LET inner_label == label_for(mapping, Val(qvs.class))
             IN Some([Check(Lower(label) \o "-" \o p \o "-qfilter-class", "property_type",
                            Some(shape_iri), inner_label, VIOLATION,
                            "Qualified filter: must be " \o Join(inner_label))
                      EXCEPT !.property = Some(prop_name),
                             !.expected_type = Some(inner_label)])
        ELSE IF ~IsNone(qvs.in)
        THEN Some([Check(Lower(label) \o "-" \o p \o "-qfilter-values", "property_value_in",
                         Some(shape_iri), label, VIOLATION,
                         "Qualified filter: value must be one of " \o ListRepr(Val(qvs.in)))
                   EXCEPT !.property = Some(prop_name),
                          !.allowed_values = qvs.in])
        ELSE None

\* One Check of _property_checks on prop_name, with the fields every one shares.
PropCheck(label, prop_name, suffix, type, shape_iri, severity, message) ==
    [Check(Lower(label) \o "-" \o Join(prop_name) \o suffix, type, Some(shape_iri),
           label, severity, message)
     EXCEPT !.property = Some(prop_name)]

RECURSIVE JoinStr(_, _)
\* sep.join(parts)
JoinStr(parts, sep) ==
    IF parts = <<>> THEN ""
    ELSE IF Len(parts) = 1 THEN Head(parts)
    ELSE Head(parts) \o sep \o JoinStr(Tail(parts), sep)
\* one message part per bound that is set (numbers print without a fraction)
MsgPart(prefix, bound) == IF IsNone(bound) THEN <<>> ELSE <<prefix \o ToString(Val(bound))>>

\* the property pair predicates, in the order the loop visits them
PairKinds == <<"equals", "disjoint", "lessThan", "lessThanOrEquals">>
PairValue(pn, k) ==
    CASE k = "equals" -> pn.equals
      [] k = "disjoint" -> pn.disjoint
      [] k = "lessThan" -> pn.lessThan
      [] k = "lessThanOrEquals" -> pn.lessThanOrEquals
PairSuffix(k) ==
    CASE k = "equals" -> "-equals"
      [] k = "disjoint" -> "-disjoint"
      [] k = "lessThan" -> "-lessthan"
      [] k = "lessThanOrEquals" -> "-lessthanorequals"

property_checks(pn, shape_iri, label, predicate_iri, min_count, max_count, severity, mapping) ==
    LET prop_name == property_for(mapping, predicate_iri)
        p == Join(prop_name)
        L == Join(label)
        is_optional == min_count = 0
        exists ==
            IF ~is_optional
            THEN << PropCheck(label, prop_name, "-exists", "property_exists", shape_iri,
                        severity, L \o " node missing required '" \o p \o "' property") >>
            ELSE <<>>
        dtype ==
            IF ~IsNone(pn.datatype)
            THEN LET lpg_type == shacl_lpg_type(Val(pn.datatype))
                 IN << [PropCheck(label, prop_name, "-type", "property_type", shape_iri,
                            severity, L \o "." \o p \o " must be of type " \o Join(lpg_type))
                        EXCEPT !.expected_type = Some(lpg_type),
                               !.only_if_exists = is_optional] >>
            ELSE <<>>
        values ==
            IF ~IsNone(pn.in)
            THEN << [PropCheck(label, prop_name, "-values", "property_value_in", shape_iri,
                         severity,
                         L \o "." \o p \o " must be one of: " \o ListRepr(Val(pn.in)))
                     EXCEPT !.allowed_values = pn.in,
                            !.only_if_exists = is_optional] >>
            ELSE <<>>
        hasvalue ==
            IF ~IsNone(pn.hasValue)
            THEN << [PropCheck(label, prop_name, "-hasvalue", "property_value_in", shape_iri,
                         severity,
                         L \o "." \o p \o " must have value " \o Repr(Val(pn.hasValue)))
                     EXCEPT !.allowed_values = Some(<<Val(pn.hasValue)>>),
                            !.only_if_exists = is_optional] >>
            ELSE <<>>
        pattern ==
            IF ~IsNone(pn.pattern)
            THEN << [PropCheck(label, prop_name, "-pattern", "property_pattern", shape_iri,
                         severity,
                         L \o "." \o p \o " must match pattern '" \o Join(Val(pn.pattern)) \o "'")
                     EXCEPT !.pattern = pn.pattern,
                            !.pattern_flags = pn.flags,
                            !.only_if_exists = is_optional] >>
            ELSE <<>>
        strlen ==
            IF ~IsNone(pn.minLength) \/ ~IsNone(pn.maxLength)
            THEN << [PropCheck(label, prop_name, "-strlen", "property_string_length",
                         shape_iri, severity,
                         L \o "." \o p \o " length must be "
                             \o JoinStr(MsgPart("at least ", pn.minLength)
                                        \o MsgPart("at most ", pn.maxLength), " and ")
                             \o " characters")
                     EXCEPT !.min_length = pn.minLength,
                            !.max_length = pn.maxLength,
                            !.only_if_exists = is_optional] >>
            ELSE <<>>
        range ==
            IF ~IsNone(pn.minInclusive) \/ ~IsNone(pn.maxInclusive)
               \/ ~IsNone(pn.minExclusive) \/ ~IsNone(pn.maxExclusive)
            THEN << [PropCheck(label, prop_name, "-range", "property_range", shape_iri,
                         severity,
                         L \o "." \o p \o " must be "
                             \o JoinStr(MsgPart(">= ", pn.minInclusive)
                                        \o MsgPart("<= ", pn.maxInclusive)
                                        \o MsgPart("> ", pn.minExclusive)
                                        \o MsgPart("< ", pn.maxExclusive), ", "))
                     EXCEPT !.min_inclusive = pn.minInclusive,
                            !.max_inclusive = pn.maxInclusive,
                            !.min_exclusive = pn.minExclusive,
                            !.max_exclusive = pn.maxExclusive,
                            !.only_if_exists = is_optional] >>
            ELSE <<>>
        pair(k) ==
            IF ~IsNone(PairValue(pn, k))
            THEN LET comp_prop == property_for(mapping, Val(PairValue(pn, k)))
                 IN << [PropCheck(label, prop_name, PairSuffix(k), "property_pair",
                            shape_iri, severity,
                            L \o "." \o p \o " must be " \o k \o " " \o L \o "."
                                \o Join(comp_prop))
                        EXCEPT !.compare_property = Some(comp_prop),
                               !.comparison_type = Some(k),
                               !.only_if_exists = is_optional] >>
            ELSE <<>>
        pairs == Flatten([i \in 1..Len(PairKinds) |-> pair(PairKinds[i])])
        uniquelang ==
            IF ~IsNone(pn.uniqueLang) /\ Val(pn.uniqueLang) = TRUE
            THEN << PropCheck(label, prop_name, "-uniquelang", "unique_lang", shape_iri, INFO,
                        "sh:uniqueLang on " \o L \o "." \o p
                            \o " - LPG has no native language tags; constraint acknowledged but not enforced") >>
            ELSE <<>>
        emitted == exists \o dtype \o values \o hasvalue \o pattern \o strlen \o range
                   \o pairs \o uniquelang
        \* the annotations go to the last check emitted so far
        annotated ==
            IF (~IsNone(pn.defaultValue) \/ ~IsNone(pn.order)) /\ emitted # <<>>
               /\ emitted[Len(emitted)].property = Some(prop_name)
            THEN [emitted EXCEPT ![Len(emitted)] =
                     [@ EXCEPT !.default_value = pn.defaultValue,
                               !.display_order = pn.order]]
            ELSE emitted
        qualified ==
            IF ~IsNone(pn.qualifiedValueShape)
            THEN LET q_filter == parse_qualified_filter(Val(pn.qualifiedValueShape),
                                     shape_iri, label, prop_name, mapping)
                 IN  IF ~IsNone(q_filter)
                     THEN << [PropCheck(label, prop_name, "-qualified",
                                  "qualified_cardinality", shape_iri, severity,
                                  L \o "." \o p \o " must have "
                                      \o JoinStr(MsgPart("at least ", pn.qualifiedMinCount)
                                             \o MsgPart("at most ", pn.qualifiedMaxCount),
                                             " and ")
                                      \o " values matching qualified shape")
                              EXCEPT !.qualified_filter = q_filter,
                                     !.qualified_min = pn.qualifiedMinCount,
                                     !.qualified_max = pn.qualifiedMaxCount] >>
                     ELSE <<>>
            ELSE <<>>
    IN  annotated \o qualified

process_property_shape(g, pn, shape_iri, label, mapping, class_hierarchy) ==
    IF IsNone(pn.path) THEN <<>>
    ELSE LET path0 == Val(pn.path)
             is_inverse == path0.kind = "bnode" /\ ~IsNone(path0.inverse)
                           /\ Val(path0.inverse).kind = "uri"
             path == IF is_inverse THEN Val(path0.inverse) ELSE path0
             direction == IF is_inverse THEN "incoming" ELSE "outgoing"
         IN  IF path0.kind = "bnode" /\ ~is_inverse THEN <<>>
             ELSE IF path.kind # "uri" THEN <<>>
             ELSE LET predicate_iri == path.iri
                      min_count == IF IsNone(pn.minCount) THEN 0 ELSE Val(pn.minCount)
                      max_count == pn.maxCount
                      severity == shacl_severity(pn.severity)
                  IN  IF is_relationship_constraint(pn.nodeKind, pn.node, pn.class,
                                                    pn.datatype)
                      THEN relationship_checks(g, pn, shape_iri, label, predicate_iri,
                               min_count, max_count, severity, mapping, direction,
                               class_hierarchy)
                      ELSE property_checks(pn, shape_iri, label, predicate_iri,
                               min_count, max_count, severity, mapping)

\* the sub-checks of one inner shape of a combinator
inner_property_checks(pn, shape_iri, label, mapping) ==
    IF IsNone(pn.path) \/ Val(pn.path).kind # "uri" THEN <<>>
    ELSE LET prop_name == property_for(mapping, Val(pn.path).iri)
             p == Join(prop_name)
             L == Join(label)
             dtype ==
                 IF ~IsNone(pn.datatype)
                 THEN LET lpg_type == shacl_lpg_type(Val(pn.datatype))
                      IN << [PropCheck(label, prop_name, "-inner-type", "property_type",
                                 shape_iri, VIOLATION,
                                 L \o "." \o p \o " must be of type " \o Join(lpg_type))
                             EXCEPT !.expected_type = Some(lpg_type)] >>
                 ELSE <<>>
             range ==
                 IF ~IsNone(pn.minInclusive) \/ ~IsNone(pn.maxInclusive)
                 THEN << [PropCheck(label, prop_name, "-inner-range", "property_range",
                              shape_iri, VIOLATION, L \o "." \o p \o " range constraint")
                          EXCEPT !.min_inclusive = pn.minInclusive,
                                 !.max_inclusive = pn.maxInclusive] >>
                 ELSE <<>>
             pattern ==
                 IF ~IsNone(pn.pattern)
                 THEN << [PropCheck(label, prop_name, "-inner-pattern", "property_pattern",
                              shape_iri, VIOLATION,
                              L \o "." \o p \o " must match pattern '"
                                  \o Join(Val(pn.pattern)) \o "'")
                          EXCEPT !.pattern = pn.pattern] >>
                 ELSE <<>>
             hasvalue ==
                 IF ~IsNone(pn.hasValue)
                 THEN << [PropCheck(label, prop_name, "-inner-hasvalue", "property_value_in",
                              shape_iri, VIOLATION,
                              L \o "." \o p \o " must equal '"
                                  \o Repr(Val(pn.hasValue)) \o "'")
                          EXCEPT !.allowed_values = Some(<<Val(pn.hasValue)>>),
                                 !.only_if_exists = TRUE] >>
                 ELSE <<>>
             exists ==
                 IF ~IsNone(pn.minCount) /\ Val(pn.minCount) > 0
                 THEN << PropCheck(label, prop_name, "-inner-exists", "property_exists",
                             shape_iri, VIOLATION,
                             L \o " node must have '" \o p \o "' property") >>
                 ELSE <<>>
         IN  dtype \o range \o pattern \o hasvalue \o exists

parse_logical_inner(inner_node, shape_iri, label, mapping) ==
    Flatten([i \in 1..Len(inner_node.property) |->
        inner_property_checks(inner_node.property[i], shape_iri, label, mapping)])

\* sh:and, sh:or, sh:xone, in the order the loop visits them
CombinatorKinds == <<"and", "or", "xone">>
CombinatorList(shape, k) ==
    CASE k = "and" -> shape.and
      [] k = "or" -> shape.or
      [] k = "xone" -> shape.xone
CombinatorType(k) ==
    CASE k = "and" -> "logical_and"
      [] k = "or" -> "logical_or"
      [] k = "xone" -> "logical_xone"
CombinatorName(k) ==
    CASE k = "and" -> "AND"
      [] k = "or" -> "OR"
      [] k = "xone" -> "XONE"

logical_constraints(shape, shape_iri, label, mapping) ==
    LET not_check(not_shape) ==
            LET sub == parse_logical_inner(not_shape, shape_iri, label, mapping)
            IN  IF sub # <<>>
                THEN << [Check(Lower(label) \o "-logical-not", "logical_not",
                               Some(shape_iri), label, VIOLATION,
                               Join(label) \o " must NOT satisfy: " \o sub[1].message)
                         EXCEPT !.sub_checks = Some(sub)] >>
                ELSE <<>>
        list_check(k) ==
            IF ~IsNone(CombinatorList(shape, k))
            THEN LET inner == Val(CombinatorList(shape, k))
                     subs == Flatten([i \in 1..Len(inner) |->
                                 parse_logical_inner(inner[i], shape_iri, label, mapping)])
                 IN  IF subs # <<>>
                     THEN << [Check(Lower(label) \o "-logical-" \o k,
                                    CombinatorType(k), Some(shape_iri), label, VIOLATION,
                                    Join(label) \o " must satisfy " \o CombinatorName(k)
                                        \o " of " \o ToString(Len(subs)) \o " conditions")
                              EXCEPT !.sub_checks = Some(subs)] >>
                     ELSE <<>>
            ELSE <<>>
    IN  Flatten([i \in 1..Len(shape.not) |-> not_check(shape.not[i])])
        \o Flatten([i \in 1..Len(CombinatorKinds) |-> list_check(CombinatorKinds[i])])

\* the checks of one node shape for one of its target classes
shape_class_checks(g, shape, class_iri, mapping, class_hierarchy) ==
    LET label == label_for(mapping, class_iri)
        props == Flatten([i \in 1..Len(shape.property) |->
                     process_property_shape(g, shape.property[i], shape.iri, label,
                                            mapping, class_hierarchy)])
        IsUri(pn) == ~IsNone(pn.path) /\ Val(pn.path).kind = "uri"
        uri_nodes == SelectIdx(shape.property, IsUri)
        declared_paths == [i \in 1..Len(uri_nodes) |-> Val(uri_nodes[i].path).iri]
        closed ==
            IF ~IsNone(shape.closed) /\ Val(shape.closed) = TRUE
            THEN LET ignored_iris == IF IsNone(shape.ignoredProperties) THEN <<>>
                                     ELSE Val(shape.ignoredProperties)
                     all_allowed == declared_paths \o ignored_iris
                     allowed_props == [i \in 1..Len(all_allowed) |->
                                          property_for(mapping, all_allowed[i])]
                 IN << [Check(Lower(label) \o "-closed-undeclared-props",
                              "undeclared_properties", Some(shape.iri), label, VIOLATION,
                              Join(label)
                                  \o " is a closed shape; only declared properties are allowed: "
                                  \o NamesRepr(allowed_props))
                        EXCEPT !.allowed_properties = Some(allowed_props)] >>
            ELSE <<>>
    IN  props \o closed \o logical_constraints(shape, shape.iri, label, mapping)

\* the target classes of a node shape, the shape itself when it declares none
target_classes(shape) == IF shape.targetClass = <<>> THEN <<shape.iri>> ELSE shape.targetClass

parse_shacl_to_plan(g, mapping, strict) ==
    LET class_hierarchy == build_class_hierarchy(g.subclass, mapping)
        class_iris == Flatten([i \in 1..Len(g.shapes) |-> target_classes(g.shapes[i])])
        one_shape(shape) ==
            Flatten([j \in 1..Len(target_classes(shape)) |->
                shape_class_checks(g, shape, target_classes(shape)[j], mapping,
                                   class_hierarchy)])
        checks == Flatten([i \in 1..Len(g.shapes) |-> one_shape(g.shapes[i])])
    IN  ValidationPlan("<string>",
            IF strict THEN checks \o generate_strict_checks(class_iris, checks, mapping)
            ELSE checks,
            class_iris, mapping)

\* ------------------------------------------------------------------------
\* backends: a compiled query is a sequence of tokens
\* ------------------------------------------------------------------------
NL == "\n"
\* what compile_check returns, or the exception it raises
Compiled(text) == [ok |-> TRUE, text |-> text, error |-> ""]
Raised(error) == [ok |-> FALSE, text |-> <<>>, error |-> error]

\* v.replace("'", "\\'")
EscapeQuotes(cs) ==
    Flatten([i \in 1..Len(cs) |-> IF cs[i] = "'" THEN <<"\\", "'">> ELSE <<cs[i]>>])

MatchLabel(label) == <<"MATCH", "(n:", Join(label), ")", NL>>
\* the head of the RETURN clause with the Cypher function whatever the backend
ReturnNodeByElementId(id_fn) ==
    <<"RETURN", "elementId", "(n)", "AS node_id", ",", "labels(n)", "AS labels", ",">>
ReturnNode(id_fn) == <<"RETURN", id_fn, "(n)", "AS node_id", ",", "labels(n)", "AS labels", ",">>
AsCheckId(check) == <<"'" \o check.id \o "'", "AS check_id">>
ActualValue(check) == <<"n.", Join(Val(check.property)), "AS actual_value", ",">>
IsNotNull(prop) == <<"n.", Join(prop), "IS NOT NULL">>

\* the relationship pattern with a labelled far endpoint
LabelledPattern(rel) ==
    IF rel.direction = "outgoing"
    THEN <<"(n)-[r:", Join(rel.type), "]->(t:", Join(rel.target_label), ")">>
    ELSE <<"(n)<-[r:", Join(rel.type), "]-(t:", Join(rel.target_label), ")">>
\* the relationship pattern with an unlabelled far endpoint
OpenPattern(rel) ==
    IF rel.direction = "outgoing"
    THEN <<"(n)-[r:", Join(rel.type), "]->(t)">>
    ELSE <<"(n)<-[r:", Join(rel.type), "]-(t)">>

\* " OR ".join(conditions), " AND ".join(conditions): conditions are token lists
RECURSIVE JoinTokens(_, _)
JoinTokens(conds, sep) ==
    IF conds = <<>> THEN <<>>
    ELSE IF Len(conds) = 1 THEN Head(conds)
    ELSE Head(conds) \o <<sep>> \o JoinTokens(Tail(conds), sep)

\* CountConditions with the minimum compared by >= : a lower bound of 0 still
\* yields a condition
CountConditionsFromZero(name, min_c, max_c) ==
    (IF min_c >= 0 THEN << <<name, "<", ToString(min_c)>> >> ELSE <<>>)
    \o (IF ~IsNone(max_c) THEN << <<name, ">", ToString(Val(max_c))>> >> ELSE <<>>)

\* the violation conditions of a count against [min, max]
CountConditions(name, min_c, max_c) ==
    (IF min_c > 0 THEN << <<name, "<", ToString(min_c)>> >> ELSE <<>>)
    \o (IF ~IsNone(max_c) THEN << <<name, ">", ToString(Val(max_c))>> >> ELSE <<>>)

NoConstraintMarker(check) ==
    <<"//", " Check ", check.id, ": no constraint (0..*)", NL,
      "//", " This check always passes - skipped">>

\* ---- backends/cypher.py ----
cypher_type_map(expected_type) ==
    CASE expected_type = T_string -> "STRING"
      [] expected_type = T_integer -> "INTEGER"
      [] expected_type = T_float -> "FLOAT"
      [] expected_type = T_boolean -> "BOOLEAN"
      [] expected_type = T_date -> "DATE"
      [] expected_type = T_datetime -> "DATETIME"
      [] OTHER -> Join([i \in 1..Len(expected_type) |-> UpperCh(expected_type[i])])
cypher_type_check(prop, expected_type) ==
    <<"NOT", "valueType(", "n.", Join(prop), ")", "STARTS WITH",
      "'" \o cypher_type_map(expected_type) \o "'">>

cypher_literal(v) ==
    IF v.py = "str" THEN "'" \o Join(EscapeQuotes(v.v)) \o "'"
    ELSE IF v.py = "bool" THEN (IF v.v THEN "true" ELSE "false")
    ELSE ToString(v.v)
cypher_list_literal(values) ==
    "[" \o JoinStr([i \in 1..Len(values) |-> cypher_literal(values[i])], ", ") \o "]"

cypher_property_exists(check) ==
    MatchLabel(check.target_label)
    \o <<"WHERE", "n.", Join(Val(check.property)), "IS NULL", NL>>
    \o ReturnNode("elementId") \o AsCheckId(check)

cypher_property_type(check) ==
    LET type_check == cypher_type_check(Val(check.property), Val(check.expected_type))
        where == IF check.only_if_exists
                 THEN <<"WHERE">> \o IsNotNull(Val(check.property)) \o <<"AND">> \o type_check
                 ELSE <<"WHERE">> \o IsNotNull(Val(check.property)) \o <<"AND">> \o type_check
    IN  MatchLabel(check.target_label) \o where \o <<NL>>
        \o ReturnNode("elementId") \o ActualValue(check) \o AsCheckId(check)

cypher_property_value_in(check) ==
    LET values_str == cypher_list_literal(Val(check.allowed_values))
        not_in == <<"NOT", "n.", Join(Val(check.property)), "IN", values_str>>
        where == IF check.only_if_exists
                 THEN <<"WHERE">> \o IsNotNull(Val(check.property)) \o <<"AND">> \o not_in
                 ELSE <<"WHERE">> \o not_in
    IN  MatchLabel(check.target_label) \o where \o <<NL>>
        \o ReturnNode("elementId") \o ActualValue(check) \o AsCheckId(check)

cypher_relationship_cardinality(check) ==
    LET rel == Val(check.relationship)
        min_c == IF ~IsNone(check.min_count) THEN Val(check.min_count) ELSE 0
        max_c == check.max_count
        pattern == LabelledPattern(rel)
        conditions == CountConditions("rel_count", min_c, max_c)
    IN  IF conditions = <<>> THEN NoConstraintMarker(check)
        ELSE MatchLabel(check.target_label)
             \o <<"OPTIONAL MATCH">> \o pattern \o <<NL>>
             \o <<"WITH n, count(r) AS rel_count", NL>>
             \o <<"WHERE">> \o JoinTokens(conditions, "OR") \o <<NL>>
             \o ReturnNode("elementId") \o <<"rel_count", "AS actual_count", ",">>
             \o AsCheckId(check)

cypher_relationship_endpoint(check) ==
    <<"MATCH", "(s)-[r:", Join(Val(check.relationship).type), "]->(t)", NL,
      "WHERE", "NOT", "(s:", Join(check.target_label), "AND", "t:",
      Join(Val(check.relationship).target_label), ")", NL,
      "RETURN", "elementId", "(r)", "AS rel_id", ",", "type(r)", "AS rel_type", ",",
      "labels(s)", "AS source_labels", ",", "labels(t)", "AS target_labels", ",">>
    \o AsCheckId(check)

cypher_undeclared_labels(check) ==
    <<"CALL db.labels() YIELD label", NL,
      "WHERE", "NOT", "label", "IN", cypher_list_literal(Val(check.allowed_values)), NL,
      "WITH label", NL, "MATCH", "(n)", "WHERE", "label", "IN", "labels(n)", NL,
      "WITH n, label LIMIT 1", NL,
      "RETURN", "elementId", "(n)", "AS node_id", ",", "[label]", "AS labels", ",",
      "label", "AS undeclared_label", ",">>
    \o AsCheckId(check)

cypher_undeclared_relationship_types(check) ==
    <<"CALL db.relationshipTypes() YIELD relationshipType", NL,
      "WHERE", "NOT", "relationshipType", "IN",
      cypher_list_literal(StrList(Val(check.allowed_relationships))), NL,
      "WITH relationshipType", NL,
      "MATCH", "()-[r]->()", "WHERE", "type(r) = relationshipType", NL,
      "WITH r, relationshipType LIMIT 1", NL,
      "RETURN", "elementId", "(startNode(r))", "AS node_id", ",",
      "labels(startNode(r))", "AS labels", ",",
      "relationshipType", "AS undeclared_type", ",">>
    \o AsCheckId(check)

cypher_undeclared_properties(check) ==
    MatchLabel(check.target_label)
    \o <<"WITH n, [k IN keys(n) WHERE NOT k IN",
         cypher_list_literal(StrList(Val(check.allowed_properties))), "] AS extra", NL,
         "WHERE", "size(extra) > 0", NL, "UNWIND extra AS undeclared_key", NL>>
    \o ReturnNode("elementId") \o <<"undeclared_key", "AS undeclared_property", ",">>
    \o AsCheckId(check)

cypher_empty_shape(check) ==
    <<"OPTIONAL MATCH", "(n:", Join(check.target_label), ")", NL,
      "WITH count(n) AS cnt", NL, "WHERE", "cnt = 0", NL,
      "RETURN", "'none'", "AS node_id", ",",
      "['" \o Join(check.target_label) \o "']", "AS labels", ",",
      "0", "AS instance_count", ",">>
    \o AsCheckId(check)

\* the kinds of the dispatch table of CypherBackend.compile_check
CypherDispatch ==
    {"property_exists", "property_type", "property_value_in",
     "relationship_cardinality", "relationship_endpoint", "undeclared_labels",
     "undeclared_relationship_types", "undeclared_properties", "empty_shape"}

cypher_handler(check) ==
    CASE check.type = "property_exists" -> cypher_property_exists(check)
      [] check.type = "property_type" -> cypher_property_type(check)
      [] check.type = "property_value_in" -> cypher_property_value_in(check)
      [] check.type = "relationship_cardinality" -> cypher_relationship_cardinality(check)
      [] check.type = "relationship_endpoint" -> cypher_relationship_endpoint(check)
      [] check.type = "undeclared_labels" -> cypher_undeclared_labels(check)
      [] check.type = "undeclared_relationship_types" ->
             cypher_undeclared_relationship_types(check)
      [] check.type = "undeclared_properties" -> cypher_undeclared_properties(check)
      [] check.type = "empty_shape" -> cypher_empty_shape(check)

\* compile_check that answers an unknown kind with an empty query
cypher_compile_check_lenient(check) ==
    IF check.type \notin CypherDispatch THEN Compiled(<<>>)
    ELSE Compiled(cypher_handler(check))

cypher_compile_check(check) ==
    IF check.type \notin CypherDispatch
    THEN Raised("NotImplementedError: Check type " \o check.type
                \o " not implemented for Cypher backend")
    ELSE Compiled(cypher_handler(check))

\* ---- backends/gql.py ----
gql_type_map(expected_type) ==
    CASE expected_type = T_string -> "STRING"
      [] expected_type = T_integer -> "INTEGER"
      [] expected_type = T_float -> "FLOAT"
      [] expected_type = T_boolean -> "BOOLEAN"
      [] expected_type = T_date -> "DATE"
      [] expected_type = T_datetime -> "TIMESTAMP"
      [] OTHER -> Join([i \in 1..Len(expected_type) |-> UpperCh(expected_type[i])])
gql_type_check(prop, expected_type) ==
    <<"NOT", "value_type(", "n.", Join(prop), ")", "STARTS WITH",
      "'" \o gql_type_map(expected_type) \o "'">>

gql_literal(v) ==
    IF v.py = "str" THEN "'" \o Join(EscapeQuotes(v.v)) \o "'"
    ELSE IF v.py = "bool" THEN (IF v.v THEN "TRUE" ELSE "FALSE")
    ELSE ToString(v.v)
gql_list_literal(values) ==
    "[" \o JoinStr([i \in 1..Len(values) |-> gql_literal(values[i])], ", ") \o "]"

\* the regex literal of a pattern check
gql_regex(check) ==
    LET pattern == Join(EscapeQuotes(Val(check.pattern)))
    IN  IF ~IsNone(check.pattern_flags) /\ Contains(Val(check.pattern_flags), "i")
        THEN "'(?i)" \o pattern \o "'"
        ELSE "'" \o pattern \o "'"

\* one condition per bound that is set
BoundCondition(lhs, op, bound) ==
    IF ~IsNone(bound) THEN << lhs \o <<op, ToString(Val(bound))>> >> ELSE <<>>

gql_property_exists(check) ==
    MatchLabel(check.target_label)
    \o <<"WHERE", "n.", Join(Val(check.property)), "IS NULL", NL>>
    \o ReturnNode("element_id") \o AsCheckId(check)

gql_property_type(check) ==
    LET type_check == gql_type_check(Val(check.property), Val(check.expected_type))
        where == IF check.only_if_exists
                 THEN <<"WHERE">> \o IsNotNull(Val(check.property)) \o <<"AND">> \o type_check
                 ELSE <<"WHERE">> \o IsNotNull(Val(check.property)) \o <<"AND">> \o type_check
    IN  MatchLabel(check.target_label) \o where \o <<NL>>
        \o ReturnNode("element_id") \o ActualValue(check) \o AsCheckId(check)

\* _property_value_in with the missing attribute counted as a value out of the set
gql_property_value_in_or_null(check) ==
    LET values_str == gql_list_literal(Val(check.allowed_values))
        not_in == <<"NOT", "n.", Join(Val(check.property)), "IN", values_str>>
    IN  MatchLabel(check.target_label)
        \o <<"WHERE", "n.", Join(Val(check.property)), "IS NULL", "OR">> \o not_in \o <<NL>>
        \o ReturnNode("element_id") \o ActualValue(check) \o AsCheckId(check)

gql_property_value_in(check) ==
    LET values_str == gql_list_literal(Val(check.allowed_values))
        not_in == <<"NOT", "n.", Join(Val(check.property)), "IN", values_str>>
        where == IF check.only_if_exists
                 THEN <<"WHERE">> \o IsNotNull(Val(check.property)) \o <<"AND">> \o not_in
                 ELSE <<"WHERE">> \o not_in
    IN  MatchLabel(check.target_label) \o where \o <<NL>>
        \o ReturnNode("element_id") \o ActualValue(check) \o AsCheckId(check)

gql_property_pattern(check) ==
    MatchLabel(check.target_label)
    \o <<"WHERE">> \o IsNotNull(Val(check.property))
    \o <<"AND", "NOT", "n.", Join(Val(check.property)), "=~", gql_regex(check), NL>>
    \o ReturnNode("element_id") \o ActualValue(check) \o AsCheckId(check)

gql_property_string_length(check) ==
    LET size == <<"size(", "n.", Join(Val(check.property)), ")">>
        conditions == BoundCondition(size, "<", check.min_length)
                      \o BoundCondition(size, ">", check.max_length)
    IN  MatchLabel(check.target_label)
        \o <<"WHERE">> \o IsNotNull(Val(check.property))
        \o <<"AND", "(">> \o JoinTokens(conditions, "OR") \o <<")", NL>>
        \o ReturnNode("element_id") \o ActualValue(check)
        \o size \o <<"AS actual_length", ",">> \o AsCheckId(check)

gql_property_range(check) ==
    LET val == <<"n.", Join(Val(check.property))>>
        conditions == BoundCondition(val, "<", check.min_inclusive)
                      \o BoundCondition(val, ">", check.max_inclusive)
                      \o BoundCondition(val, "<=", check.min_exclusive)
                      \o BoundCondition(val, ">=", check.max_exclusive)
    IN  MatchLabel(check.target_label)
        \o <<"WHERE">> \o IsNotNull(Val(check.property))
        \o <<"AND", "(">> \o JoinTokens(conditions, "OR") \o <<")", NL>>
        \o ReturnNode("element_id") \o ActualValue(check) \o AsCheckId(check)

gql_property_pair(check) ==
    LET prop1 == <<"n.", Join(Val(check.property))>>
        prop2 == <<"n.", Join(Val(check.compare_property))>>
        comp == Val(check.comparison_type)
        condition ==
            CASE comp = "equals" -> prop1 \o <<"<>">> \o prop2
              [] comp = "disjoint" -> prop1 \o <<"=">> \o prop2
              [] comp = "lessThan" -> <<"NOT", "(">> \o prop1 \o <<"<">> \o prop2 \o <<")">>
              [] comp = "lessThanOrEquals" ->
                     <<"NOT", "(">> \o prop1 \o <<"<=">> \o prop2 \o <<")">>
    IN  MatchLabel(check.target_label)
        \o <<"WHERE">> \o prop1 \o <<"IS NOT NULL", "AND">> \o prop2 \o <<"IS NOT NULL", NL>>
        \o <<"AND">> \o condition \o <<NL>>
        \o ReturnNode("element_id") \o prop1 \o <<"AS value1", ",">>
        \o prop2 \o <<"AS value2", ",">> \o AsCheckId(check)

gql_relationship_cardinality(check) ==
    LET rel == Val(check.relationship)
        min_c == IF ~IsNone(check.min_count) THEN Val(check.min_count) ELSE 0
        max_c == check.max_count
        by_labels == ~IsNone(check.acceptable_labels) /\ Val(check.acceptable_labels) # <<>>
        pattern == IF by_labels THEN OpenPattern(rel) ELSE LabelledPattern(rel)
        target_filter ==
            IF by_labels
            THEN <<"WHERE", "any(lbl IN labels(t) WHERE lbl IN",
                   gql_list_literal(StrList(Val(check.acceptable_labels))), ")", NL>>
            ELSE <<>>
        conditions == CountConditions("rel_count", min_c, max_c)
    IN  IF conditions = <<>> THEN NoConstraintMarker(check)
        ELSE MatchLabel(check.target_label)
             \o <<"OPTIONAL MATCH">> \o pattern \o <<NL>>
             \o target_filter
             \o <<"WITH n, count(r) AS rel_count", NL>>
             \o <<"WHERE">> \o JoinTokens(conditions, "OR") \o <<NL>>
             \o ReturnNode("element_id") \o <<"rel_count", "AS actual_count", ",">>
             \o AsCheckId(check)

gql_relationship_endpoint(check) ==
    <<"MATCH", "(s)-[r:", Join(Val(check.relationship).type), "]->(t)", NL,
      "WHERE", "NOT", "(s:", Join(check.target_label), "AND", "t:",
      Join(Val(check.relationship).target_label), ")", NL,
      "RETURN", "element_id", "(r)", "AS rel_id", ",", "type(r)", "AS rel_type", ",",
      "labels(s)", "AS source_labels", ",", "labels(t)", "AS target_labels", ",">>
    \o AsCheckId(check)

\* _compile_condition(check, "n"): a WHERE-clause fragment for a sub-check
gql_compile_condition(check) ==
    LET val == <<"n.", Join(Val(check.property))>>
    IN  CASE check.type = "property_exists" -> val \o <<"IS NOT NULL">>
          [] check.type = "property_type" ->
                 val \o <<"IS NOT NULL", "AND", "NOT", "(">>
                 \o gql_type_check(Val(check.property), Val(check.expected_type)) \o <<")">>
          [] check.type = "property_value_in" ->
                 val \o <<"IN", gql_list_literal(Val(check.allowed_values))>>
          [] check.type = "property_pattern" -> val \o <<"=~", gql_regex(check)>>
          [] check.type = "property_range" ->
                 LET conds == BoundCondition(val, ">=", check.min_inclusive)
                              \o BoundCondition(val, "<=", check.max_inclusive)
                              \o BoundCondition(val, ">", check.min_exclusive)
                              \o BoundCondition(val, "<", check.max_exclusive)
                 IN  IF conds # <<>> THEN JoinTokens(conds, "AND") ELSE <<"TRUE">>
          [] OTHER -> <<"TRUE">>

NoInnerMarker(check, name) ==
    <<"//", " Check ", check.id, ": sh:" \o name \o " with no inner checks - skipped">>
\* "if not check.sub_checks": None or the empty list
NoSubChecks(check) == IsNone(check.sub_checks) \/ Val(check.sub_checks) = <<>>

gql_qualified_cardinality(check) ==
    LET filter_cond == gql_compile_condition(Val(check.qualified_filter))
        conditions ==
            BoundCondition(<<"qcount">>, "<", check.qualified_min)
            \o BoundCondition(<<"qcount">>, ">", check.qualified_max)
    IN  IF conditions = <<>>
        THEN <<"//", " Check ", check.id, ": qualified cardinality with no bounds", NL,
               "//", " This check always passes - skipped">>
        ELSE MatchLabel(check.target_label)
             \o <<"WITH n, size([x IN CASE WHEN">> \o IsNotNull(Val(check.property))
             \o <<"THEN", NL, "CASE WHEN">> \o filter_cond
             \o <<"THEN [1] ELSE [] END", NL, "ELSE [] END | x]) AS qcount", NL>>
             \o <<"WHERE">> \o JoinTokens(conditions, "OR") \o <<NL>>
             \o ReturnNode("element_id") \o <<"qcount", "AS qualified_count", ",">>
             \o AsCheckId(check)

gql_logical_not(check) ==
    IF NoSubChecks(check) THEN NoInnerMarker(check, "not")
    ELSE MatchLabel(check.target_label)
         \o <<"WHERE">> \o gql_compile_condition(Val(check.sub_checks)[1]) \o <<NL>>
         \o ReturnNode("element_id") \o AsCheckId(check)

\* NOT (cond) for every sub-check
NegatedConditions(check) ==
    [i \in 1..Len(Val(check.sub_checks)) |->
        <<"NOT", "(">> \o gql_compile_condition(Val(check.sub_checks)[i]) \o <<")">>]

gql_logical_and(check) ==
    IF NoSubChecks(check) THEN NoInnerMarker(check, "and")
    ELSE MatchLabel(check.target_label)
         \o <<"WHERE">> \o JoinTokens(NegatedConditions(check), "OR") \o <<NL>>
         \o ReturnNode("element_id") \o AsCheckId(check)

gql_logical_or(check) ==
    IF NoSubChecks(check) THEN NoInnerMarker(check, "or")
    ELSE MatchLabel(check.target_label)
         \o <<"WHERE">> \o JoinTokens(NegatedConditions(check), "AND") \o <<NL>>
         \o ReturnNode("element_id") \o AsCheckId(check)

gql_logical_xone(check) ==
    IF NoSubChecks(check) THEN NoInnerMarker(check, "xone")
    ELSE LET case_parts ==
                 [i \in 1..Len(Val(check.sub_checks)) |->
                     <<"CASE WHEN">> \o gql_compile_condition(Val(check.sub_checks)[i])
                     \o <<"THEN 1 ELSE 0 END">>]
         IN  MatchLabel(check.target_label)
             \o <<"WITH n, (">> \o JoinTokens(case_parts, "+")
             \o <<") AS satisfied_count", NL, "WHERE", "satisfied_count <> 1", NL>>
             \o ReturnNode("element_id") \o <<"satisfied_count", ",">> \o AsCheckId(check)

gql_unique_lang(check) ==
    <<"//", " Check ", check.id, ": sh:uniqueLang not applicable to LPG", NL,
      "//", " Neo4j properties have no language tags - constraint acknowledged">>

gql_undeclared_labels(check) ==
    <<"CALL db.labels() YIELD label", NL,
      "WHERE", "NOT", "label", "IN", gql_list_literal(Val(check.allowed_values)), NL,
      "WITH label", NL, "MATCH", "(n)", "WHERE", "label", "IN", "labels(n)", NL,
      "WITH n, label LIMIT 1", NL,
      "RETURN", "element_id", "(n)", "AS node_id", ",", "[label]", "AS labels", ",",
      "label", "AS undeclared_label", ",">>
    \o AsCheckId(check)

gql_undeclared_relationship_types(check) ==
    <<"CALL db.relationshipTypes() YIELD relationshipType", NL,
      "WHERE", "NOT", "relationshipType", "IN",
      gql_list_literal(StrList(Val(check.allowed_relationships))), NL,
      "WITH relationshipType", NL,
      "MATCH", "()-[r]->()", "WHERE", "type(r) = relationshipType", NL,
      "WITH r, relationshipType LIMIT 1", NL,
      "RETURN", "element_id", "(startNode(r))", "AS node_id", ",",
      "labels(startNode(r))", "AS labels", ",",
      "relationshipType", "AS undeclared_type", ",">>
    \o AsCheckId(check)

gql_undeclared_properties(check) ==
    MatchLabel(check.target_label)
    \o <<"WITH n, [k IN keys(n) WHERE NOT k IN",
         gql_list_literal(StrList(Val(check.allowed_properties))), "] AS extra", NL,
         "WHERE", "size(extra) > 0", NL, "UNWIND extra AS undeclared_key", NL>>
    \o ReturnNode("element_id") \o <<"undeclared_key", "AS undeclared_property", ",">>
    \o AsCheckId(check)

gql_empty_shape(check) ==
    <<"OPTIONAL MATCH", "(n:", Join(check.target_label), ")", NL,
      "WITH count(n) AS cnt", NL, "WHERE", "cnt = 0", NL,
      "RETURN", "'none'", "AS node_id", ",",
      "['" \o Join(check.target_label) \o "']", "AS labels", ",",
      "0", "AS instance_count", ",">>
    \o AsCheckId(check)

\* the kinds of the dispatch table of GQLBackend.compile_check
GqlDispatch ==
    {"property_exists", "property_type", "property_value_in", "property_pattern",
     "property_string_length", "property_range", "property_pair",
     "relationship_cardinality", "relationship_endpoint", "undeclared_labels",
     "undeclared_relationship_types", "undeclared_properties", "empty_shape",
     "qualified_cardinality", "logical_not", "logical_and", "logical_or",
     "logical_xone", "unique_lang"}

gql_handler(check) ==
    CASE check.type = "property_exists" -> gql_property_exists(check)
      [] check.type = "property_type" -> gql_property_type(check)
      [] check.type = "property_value_in" -> gql_property_value_in(check)
      [] check.type = "property_pattern" -> gql_property_pattern(check)
      [] check.type = "property_string_length" -> gql_property_string_length(check)
      [] check.type = "property_range" -> gql_property_range(check)
      [] check.type = "property_pair" -> gql_property_pair(check)
      [] check.type = "relationship_cardinality" -> gql_relationship_cardinality(check)
      [] check.type = "relationship_endpoint" -> gql_relationship_endpoint(check)
      [] check.type = "undeclared_labels" -> gql_undeclared_labels(check)
      [] check.type = "undeclared_relationship_types" ->
             gql_undeclared_relationship_types(check)
      [] check.type = "undeclared_properties" -> gql_undeclared_properties(check)
      [] check.type = "empty_shape" -> gql_empty_shape(check)
      [] check.type = "qualified_cardinality" -> gql_qualified_cardinality(check)
      [] check.type = "logical_not" -> gql_logical_not(check)
      [] check.type = "logical_and" -> gql_logical_and(check)
      [] check.type = "logical_or" -> gql_logical_or(check)
      [] check.type = "logical_xone" -> gql_logical_xone(check)
      [] check.type = "unique_lang" -> gql_unique_lang(check)

gql_compile_check(check) ==
    IF check.type \notin GqlDispatch
    THEN Raised("NotImplementedError: Check type " \o check.type
                \o " not implemented for GQL backend")
    ELSE Compiled(gql_handler(check))

\* ---- backends/__init__.py: the Backend protocol ----
Backends == {"cypher", "gql"}
compile_check(backend, check) ==
    IF backend = "cypher" THEN cypher_compile_check(check) ELSE gql_compile_check(check)

\* ------------------------------------------------------------------------
\* runner.py
\* ------------------------------------------------------------------------
\* str.strip() on a token sequence: leading and trailing blank tokens go
IsBlank(tok) == tok \in {"", " ", NL}
RECURSIVE LStrip(_)
LStrip(text) ==
    IF text # <<>> /\ IsBlank(Head(text)) THEN LStrip(Tail(text)) ELSE text
RECURSIVE RStrip(_)
RStrip(text) ==
    IF text # <<>> /\ IsBlank(text[Len(text)])
    THEN RStrip(SubSeq(text, 1, Len(text) - 1)) ELSE text
Strip(text) == RStrip(LStrip(text))
\* query.strip().startswith("//")
StartsWithComment(query) == Strip(query) # <<>> /\ Head(Strip(query)) = "//"

\* str(v) of a Python value
Str(v) == IF v.py = "str" THEN Join(v.v) ELSE Repr(v)
\* dict.get(key, default) on a record
Get(record, key, default) == IF key \in DOMAIN record THEN record[key] ELSE default

\* ViolatingNode without the rel_id and source_labels fallbacks
ViolatingNodeNoFallback(record) ==
    [node_id |-> Str(Get(record, "node_id", PyStr(<<"u","n","k","n","o","w","n">>))),
     labels |-> Get(record, "labels", <<>>),
     extra |-> [k \in DOMAIN record \ {"node_id", "labels", "check_id"} |-> record[k]]]

NotExtra == {"node_id", "rel_id", "labels", "check_id", "source_labels", "target_labels"}
\* one ViolatingNode from one returned record
ViolatingNode(record) ==
    LET labels_raw == Get(record, "labels", Get(record, "source_labels", <<>>))
    IN  [node_id |-> Str(Get(record, "node_id", Get(record, "rel_id", PyStr(<<"u","n","k","n","o","w","n">>)))),
         labels |-> IF labels_raw # <<>> THEN labels_raw ELSE <<>>,
         extra |-> [k \in DOMAIN record \ NotExtra |-> record[k]]]

CheckResult(check, message, passed, vacuous, violating_nodes, query) ==
    [check_id |-> check.id, check_type |-> check.type, severity |-> check.severity,
     message |-> message, shape |-> check.shape, target_label |-> check.target_label,
     passed |-> passed, vacuous |-> vacuous, violating_nodes |-> violating_nodes,
     query |-> query]

\* compile_plan that leaves out the checks that compile to a comment
compile_plan_executable_only(p, b) ==
    LET compiled_checks == [i \in 1..Len(p.checks) |-> compile_check(b, p.checks[i])]
        bad == {i \in 1..Len(p.checks) : ~compiled_checks[i].ok}
        kept == SelectIdx([i \in 1..Len(p.checks) |-> i],
                          LAMBDA i : ~StartsWithComment(compiled_checks[i].text))
    IN  IF bad # {}
        THEN Raised(compiled_checks[CHOOSE i \in bad : \A j \in bad : i <= j].error)
        ELSE Compiled([n \in 1..Len(kept) |->
                          [check |-> p.checks[kept[n]],
                           query |-> compiled_checks[kept[n]].text]])

\* compile_plan: the (check, query) pairs, or the error of the first check that
\* the backend rejects
compile_plan(p, b) ==
    LET compiled_checks == [i \in 1..Len(p.checks) |-> compile_check(b, p.checks[i])]
        bad == {i \in 1..Len(p.checks) : ~compiled_checks[i].ok}
    IN  IF bad # {}
        THEN Raised(compiled_checks[CHOOSE i \in bad : \A j \in bad : i <= j].error)
        ELSE Compiled([i \in 1..Len(p.checks) |->
                          [check |-> p.checks[i], query |-> compiled_checks[i].text]])

SeverityUpper(sev) ==
    CASE sev = VIOLATION -> "VIOLATION" [] sev = WARNING -> "WARNING" [] sev = INFO -> "INFO"

\* dry_run: "\n".join(lines) with four lines per check
dry_run(p, b) ==
    LET c == compile_plan(p, b)
        lines(e) == << <<"-- [" \o SeverityUpper(e.check.severity) \o "] " \o e.check.id>>,
                       <<"-- " \o e.check.message>>,
                       e.query,
                       <<"">> >>
    IN  IF ~c.ok THEN c
        ELSE Compiled(JoinTokens(Flatten([i \in 1..Len(c.text) |-> lines(c.text[i])]), NL))

PROPERTY_VACUOUS_TYPES ==
    {"property_type", "property_value_in", "property_pattern",
     "property_string_length", "property_range", "property_pair"}
\* "check.property" as a condition: set and not the empty string
HasProperty(check) == ~IsNone(check.property) /\ Val(check.property) # <<>>

declared_labels(p) == {label_for(p.mapping, p.shapes[i]) : i \in 1..Len(p.shapes)}
label_props(comp) ==
    {<<comp[i].check.target_label, Val(comp[i].check.property)>> :
        i \in {j \in 1..Len(comp) : comp[j].check.type \in PROPERTY_VACUOUS_TYPES
                                    /\ HasProperty(comp[j].check)}}

LabelCountQuery(label) == <<"MATCH", "(n:", Join(label), ")", "RETURN count(n) AS cnt">>
PropCountQuery(label, prop) ==
    <<"MATCH", "(n:", Join(label), ")", "WHERE", "n.", Join(prop), "IS NOT NULL",
      "RETURN count(n) AS cnt">>

\* is_vacuous with the unpopulated-attribute clause left out
is_vacuous_label_only(check, empty_l, empty_p) ==
    check.target_label \in empty_l /\ check.type # "empty_shape"

\* is_vacuous with the empty-label clause left out
is_vacuous_property_only(check, empty_l, empty_p) ==
    /\ check.type \in PROPERTY_VACUOUS_TYPES
    /\ HasProperty(check)
    /\ <<check.target_label, Val(check.property)>> \in empty_p

is_vacuous(check, empty_l, empty_p) ==
    \/ check.target_label \in empty_l /\ check.type # "empty_shape"
    \/ /\ check.type \in PROPERTY_VACUOUS_TYPES
       /\ HasProperty(check)
       /\ <<check.target_label, Val(check.property)>> \in empty_p

\* ------------------------------------------------------------------------
\* state
\* ------------------------------------------------------------------------
VARIABLES
    plan, backend,          \* the arguments of the runner entry point
    op,                     \* the entry point called: compile_plan, dry_run, execute_plan
    pc,                     \* idle, run (inside execute_plan), done
    compiled, results,      \* execute_plan locals
    violations_total, warnings_total, info_total, passed_total, vacuous_total,
    empty_labels, empty_props,
    labels_todo, props_todo,\* what the two pre-flight loops have yet to visit
    idx,                    \* position of the main loop in compiled
    session_log,            \* every session.run call: the query and what came back
    ret,                    \* the value the entry point returned
    exc,                    \* the exception that left the entry point
    input, output           \* argument and result of a parser or compile_check call

vars == <<plan, backend, op, pc, compiled, results, violations_total, warnings_total,
          info_total, passed_total, vacuous_total, empty_labels, empty_props,
          labels_todo, props_todo, idx, session_log, ret, exc, input, output>>

runner_vars == <<plan, backend, op, pc, compiled, results, violations_total,
                 warnings_total, info_total, passed_total, vacuous_total, empty_labels,
                 empty_props, labels_todo, props_todo, idx, session_log, ret, exc>>

\* ---- the plans the runner is given ----
IriA == <<"e", "x", "/", "A">>
IriB == <<"e", "x", "/", "B">>
LabelA == label_for(Mapping(EmptyTable, EmptyTable, EmptyTable), IriA)
LabelB == label_for(Mapping(EmptyTable, EmptyTable, EmptyTable), IriB)
PropP == <<"p">>
PropQ == <<"q">>
RelH == <<"H">>

CheckPool ==
    << [Check("a-p-exists", "property_exists", Some(IriA), LabelA, VIOLATION,
              "A.p must exist")
           EXCEPT !.property = Some(PropP)],
       [Check("a-p-type", "property_type", Some(IriA), LabelA, INFO,
              "A.p must be of type string")
           EXCEPT !.property = Some(PropP), !.expected_type = Some(T_string),
                  !.only_if_exists = TRUE],
       [Check("a-h-cardinality", "relationship_cardinality", Some(IriA), LabelA,
              VIOLATION, rel_cardinality_message(LabelA, RelH, LabelB, 0, None))
           EXCEPT !.relationship = Some(RelationshipTarget(RelH, "outgoing", LabelB)),
                  !.min_count = Some(0)],
       [Check("b-h-cardinality", "relationship_cardinality", Some(IriB), LabelB,
              INFO, "B may have any number of H relationships")
           EXCEPT !.relationship = Some(RelationshipTarget(RelH, "incoming", LabelA)),
                  !.acceptable_labels = Some(<<LabelA>>)],
       [Check("b-h-cardinality", "relationship_cardinality", Some(IriB), LabelB,
              VIOLATION, rel_cardinality_message(LabelB, RelH, LabelA, 1, Some(1)))
           EXCEPT !.relationship = Some(RelationshipTarget(RelH, "outgoing", LabelA)),
                  !.min_count = Some(1), !.max_count = Some(1)],
       [Check("b-not-empty", "empty_shape", Some(IriB), LabelB, WARNING,
              "No B nodes found in the graph - shape is declared but has no instances")
           EXCEPT !.only_if_exists = FALSE],
       [Check("a-p-uniquelang", "unique_lang", Some(IriA), LabelA, INFO,
              "A.p sh:uniqueLang")
           EXCEPT !.property = Some(PropP)],
       [Check("a-q-range", "property_range", Some(IriA), LabelA, WARNING,
              "A.q must be in range >= 1")
           EXCEPT !.property = Some(PropQ), !.min_inclusive = Some(1),
                  !.only_if_exists = TRUE],
       \* strict-undeclared-labels, whose target is "*"
       generate_strict_checks(<<IriA, IriB>>, <<>>,
                              Mapping(EmptyTable, EmptyTable, EmptyTable))[1] >>

RECURSIVE SeqsUpTo(_, _)
\* the index sequences of length 1..n over 1..k
SeqsUpTo(n, k) ==
    IF n = 0 THEN {<<>>}
    ELSE LET shorter == SeqsUpTo(n - 1, k)
         IN  shorter \cup {Append(q, i) : q \in shorter, i \in 1..k}

Plans ==
    {ValidationPlan("<string>", [i \in 1..Len(q) |-> CheckPool[q[i]]], <<IriA, IriB>>,
                    Mapping(EmptyTable, EmptyTable, EmptyTable)) :
        q \in SeqsUpTo(MaxPlanLen, Len(CheckPool)) \ {<<>>}}

\* what the database answers
CountAnswers == {0, 1}
QueryErrors == {"ServiceUnavailable"}
NodeRecord ==
    [node_id |-> PyStr(<<"4", ":", "1">>), labels |-> <<"A">>,
     check_id |-> PyStr(<<"c">>), actual_value |-> PyInt(7)]
LegacyRecord == [node_id |-> PyInt(3), labels |-> <<>>, check_id |-> PyStr(<<"c">>)]
RelRecord ==
    [rel_id |-> PyStr(<<"5", ":", "2">>), rel_type |-> PyStr(<<"H">>),
     source_labels |-> <<"A">>, target_labels |-> <<"B">>, check_id |-> PyStr(<<"c">>)]
BareRecord == [undeclared_type |-> PyStr(<<"X">>)]
RecordLists == << <<>>, <<NodeRecord, LegacyRecord>>, <<RelRecord, BareRecord>> >>

NoReport == <<>>
NoException == ""

RunnerIdle ==
    /\ op = "" /\ pc = "idle"
    /\ compiled = <<>> /\ results = <<>>
    /\ violations_total = 0 /\ warnings_total = 0 /\ info_total = 0
    /\ passed_total = 0 /\ vacuous_total = 0
    /\ empty_labels = {} /\ empty_props = {}
    /\ labels_todo = {} /\ props_todo = {}
    /\ idx = 0 /\ session_log = <<>>
    /\ ret = NoReport /\ exc = NoException

Init ==
    /\ plan \in Plans
    /\ backend \in Backends
    /\ RunnerIdle
    /\ input = <<>> /\ output = <<>>

\* one session.run call as the log keeps it
Ran(kind, i, query, error, records) ==
    [kind |-> kind, idx |-> i, query |-> query, error |-> error, records |-> records]

\* compile_plan(plan, backend)
CompilePlan ==
    /\ pc = "idle"
    /\ LET c == compile_plan(plan, backend)
       IN  /\ op' = "compile_plan" /\ pc' = "done"
           /\ IF c.ok THEN ret' = c.text /\ exc' = exc
              ELSE exc' = c.error /\ ret' = ret
    /\ UNCHANGED <<plan, backend, compiled, results, violations_total, warnings_total,
                   info_total, passed_total, vacuous_total, empty_labels, empty_props,
                   labels_todo, props_todo, idx, session_log, input, output>>

\* dry_run(plan, backend)
DryRun ==
    /\ pc = "idle"
    /\ LET c == dry_run(plan, backend)
       IN  /\ op' = "dry_run" /\ pc' = "done"
           /\ IF c.ok THEN ret' = c.text /\ exc' = exc
              ELSE exc' = c.error /\ ret' = ret
    /\ UNCHANGED <<plan, backend, compiled, results, violations_total, warnings_total,
                   info_total, passed_total, vacuous_total, empty_labels, empty_props,
                   labels_todo, props_todo, idx, session_log, input, output>>

\* execute_plan up to the opening of the session
ExecuteBegin ==
    /\ pc = "idle"
    /\ op' = "execute_plan"
    /\ LET c == compile_plan(plan, backend)
       IN  IF c.ok
           THEN /\ compiled' = c.text
                /\ labels_todo' = declared_labels(plan)
                /\ props_todo' = label_props(c.text)
                /\ idx' = 1
                /\ pc' = "run" /\ exc' = exc
           ELSE /\ exc' = c.error /\ pc' = "done"
                /\ UNCHANGED <<compiled, labels_todo, props_todo, idx>>
    /\ UNCHANGED <<plan, backend, results, violations_total, warnings_total, info_total,
                   passed_total, vacuous_total, empty_labels, empty_props, session_log,
                   ret, input, output>>

\* one turn of "for label in declared_labels"
CountLabel ==
    /\ pc = "run" /\ labels_todo # {}
    /\ \E label \in labels_todo, cnt \in CountAnswers :
          /\ labels_todo' = labels_todo \ {label}
          /\ session_log' = Append(session_log,
                 Ran("count", 0, LabelCountQuery(label), "", <<[cnt |-> cnt]>>))
          /\ empty_labels' = IF cnt = 0 THEN empty_labels \cup {label} ELSE empty_labels
    /\ UNCHANGED <<plan, backend, op, pc, compiled, results, violations_total,
                   warnings_total, info_total, passed_total, vacuous_total, empty_props,
                   props_todo, idx, ret, exc, input, output>>

\* one turn of "for label, prop in label_props" whose label is empty: continue
SkipProp ==
    /\ pc = "run" /\ labels_todo = {}
    /\ \E lp \in props_todo :
          /\ lp[1] \in empty_labels
          /\ props_todo' = props_todo \ {lp}
    /\ UNCHANGED <<plan, backend, op, pc, compiled, results, violations_total,
                   warnings_total, info_total, passed_total, vacuous_total, empty_labels,
                   empty_props, labels_todo, idx, session_log, ret, exc, input, output>>

\* CountProp without the test that skips the pairs of an empty label
CountPropAnyLabel ==
    /\ pc = "run" /\ labels_todo = {}
    /\ \E lp \in props_todo, cnt \in CountAnswers :
          /\ props_todo' = props_todo \ {lp}
          /\ session_log' = Append(session_log,
                 Ran("count", 0, PropCountQuery(lp[1], lp[2]), "", <<[cnt |-> cnt]>>))
          /\ empty_props' = IF cnt = 0 THEN empty_props \cup {lp} ELSE empty_props
    /\ UNCHANGED <<plan, backend, op, pc, compiled, results, violations_total,
                   warnings_total, info_total, passed_total, vacuous_total, empty_labels,
                   labels_todo, idx, ret, exc, input, output>>

\* one turn of "for label, prop in label_props" that counts the non-null values
CountProp ==
    /\ pc = "run" /\ labels_todo = {}
    /\ \E lp \in props_todo, cnt \in CountAnswers :
          /\ lp[1] \notin empty_labels
          /\ props_todo' = props_todo \ {lp}
          /\ session_log' = Append(session_log,
                 Ran("count", 0, PropCountQuery(lp[1], lp[2]), "", <<[cnt |-> cnt]>>))
          /\ empty_props' = IF cnt = 0 THEN empty_props \cup {lp} ELSE empty_props
    /\ UNCHANGED <<plan, backend, op, pc, compiled, results, violations_total,
                   warnings_total, info_total, passed_total, vacuous_total, empty_labels,
                   labels_todo, idx, ret, exc, input, output>>

\* a pre-flight count query raises: nothing catches it
PreflightRaises ==
    /\ pc = "run"
    /\ \E e \in QueryErrors :
          /\ \/ \E label \in labels_todo :
                   session_log' = Append(session_log,
                       Ran("count", 0, LabelCountQuery(label), e, <<>>))
             \/ /\ labels_todo = {}
                /\ \E lp \in props_todo :
                      /\ lp[1] \notin empty_labels
                      /\ session_log' = Append(session_log,
                             Ran("count", 0, PropCountQuery(lp[1], lp[2]), e, <<>>))
          /\ exc' = e
    /\ pc' = "done"
    /\ UNCHANGED <<plan, backend, op, compiled, results, violations_total,
                   warnings_total, info_total, passed_total, vacuous_total, empty_labels,
                   empty_props, labels_todo, props_todo, idx, ret, input, output>>

\* the main loop is at compiled[idx]
AtCheck == pc = "run" /\ labels_todo = {} /\ props_todo = {} /\ idx <= Len(compiled)
check_at == compiled[idx].check
query_at == compiled[idx].query
vacuous_at == is_vacuous(check_at, empty_labels, empty_props)

\* CheckNoop that reports every no-op check as passed
CheckNoopPassed ==
    /\ pc = "run" /\ labels_todo = {} /\ props_todo = {} /\ idx <= Len(compiled)
    /\ StartsWithComment(compiled[idx].query)
    /\ passed_total' = passed_total + 1
    /\ results' = Append(results,
           CheckResult(compiled[idx].check, compiled[idx].check.message, TRUE,
                       is_vacuous(compiled[idx].check, empty_labels, empty_props),
                       <<>>, compiled[idx].query))
    /\ idx' = idx + 1
    /\ UNCHANGED <<plan, backend, op, pc, compiled, violations_total, warnings_total,
                   info_total, vacuous_total, empty_labels, empty_props, labels_todo,
                   props_todo, session_log, ret, exc, input, output>>

\* a no-op check: recorded without a query
CheckNoop ==
    /\ AtCheck
    /\ StartsWithComment(query_at)
    /\ IF vacuous_at
       THEN vacuous_total' = vacuous_total + 1 /\ passed_total' = passed_total
       ELSE passed_total' = passed_total + 1 /\ vacuous_total' = vacuous_total
    /\ results' = Append(results, CheckResult(check_at, check_at.message, ~vacuous_at,
                                              vacuous_at, <<>>, query_at))
    /\ idx' = idx + 1
    /\ UNCHANGED <<plan, backend, op, pc, compiled, violations_total, warnings_total,
                   info_total, empty_labels, empty_props, labels_todo, props_todo,
                   session_log, ret, exc, input, output>>

\* CheckVacuous that adds the check to no total
CheckVacuousUntallied ==
    /\ pc = "run" /\ labels_todo = {} /\ props_todo = {} /\ idx <= Len(compiled)
    /\ ~StartsWithComment(compiled[idx].query)
    /\ is_vacuous(compiled[idx].check, empty_labels, empty_props)
    /\ results' = Append(results,
           CheckResult(compiled[idx].check, compiled[idx].check.message, FALSE, TRUE,
                       <<>>, compiled[idx].query))
    /\ idx' = idx + 1
    /\ UNCHANGED <<plan, backend, op, pc, compiled, violations_total, warnings_total,
                   info_total, passed_total, vacuous_total, empty_labels, empty_props,
                   labels_todo, props_todo, session_log, ret, exc, input, output>>

\* a vacuous check: recorded without a query
CheckVacuous ==
    /\ AtCheck
    /\ ~StartsWithComment(query_at)
    /\ vacuous_at
    /\ vacuous_total' = vacuous_total + 1
    /\ results' = Append(results, CheckResult(check_at, check_at.message, FALSE, TRUE,
                                              <<>>, query_at))
    /\ idx' = idx + 1
    /\ UNCHANGED <<plan, backend, op, pc, compiled, violations_total, warnings_total,
                   info_total, passed_total, empty_labels, empty_props, labels_todo,
                   props_todo, session_log, ret, exc, input, output>>

\* CheckRaises without the except clause: the error leaves execute_plan
CheckRaisesUncaught ==
    /\ pc = "run" /\ labels_todo = {} /\ props_todo = {} /\ idx <= Len(compiled)
    /\ ~StartsWithComment(compiled[idx].query)
    /\ ~is_vacuous(compiled[idx].check, empty_labels, empty_props)
    /\ \E e \in QueryErrors :
          /\ session_log' = Append(session_log,
                 Ran("check", idx, compiled[idx].query, e, <<>>))
          /\ exc' = e
    /\ pc' = "done"
    /\ UNCHANGED <<plan, backend, op, compiled, results, violations_total,
                   warnings_total, info_total, passed_total, vacuous_total, empty_labels,
                   empty_props, labels_todo, props_todo, idx, ret, input, output>>

\* CheckRaises with a retry: the failure is logged and the same check is tried again
CheckRaisesRetry ==
    /\ pc = "run" /\ labels_todo = {} /\ props_todo = {} /\ idx <= Len(compiled)
    /\ ~StartsWithComment(compiled[idx].query)
    /\ ~is_vacuous(compiled[idx].check, empty_labels, empty_props)
    /\ \E e \in QueryErrors :
          session_log' = Append(session_log,
              Ran("check", idx, compiled[idx].query, e, <<>>))
    /\ UNCHANGED <<plan, backend, op, pc, compiled, results, violations_total,
                   warnings_total, info_total, passed_total, vacuous_total, empty_labels,
                   empty_props, labels_todo, props_todo, idx, ret, exc, input, output>>

\* session.run(query).data() raises
CheckRaises ==
    /\ AtCheck
    /\ ~StartsWithComment(query_at)
    /\ ~vacuous_at
    /\ \E e \in QueryErrors :
          /\ session_log' = Append(session_log, Ran("check", idx, query_at, e, <<>>))
          /\ results' = Append(results,
                 CheckResult(check_at, "Query execution failed: " \o e, FALSE, FALSE,
                             <<>>, query_at))
    /\ violations_total' = violations_total + 1
    /\ idx' = idx + 1
    /\ UNCHANGED <<plan, backend, op, pc, compiled, warnings_total, info_total,
                   passed_total, vacuous_total, empty_labels, empty_props, labels_todo,
                   props_todo, ret, exc, input, output>>

\* session.run(query).data() returns records
CheckRuns ==
    /\ AtCheck
    /\ ~StartsWithComment(query_at)
    /\ ~vacuous_at
    /\ \E k \in 1..Len(RecordLists) :
          LET records == RecordLists[k]
              violating_nodes == [i \in 1..Len(records) |-> ViolatingNode(records[i])]
              passed == Len(violating_nodes) = 0
              failed(sev) == IF ~passed /\ check_at.severity = sev THEN 1 ELSE 0
          IN  /\ session_log' = Append(session_log,
                     Ran("check", idx, query_at, "", records))
              /\ passed_total' = passed_total + (IF passed THEN 1 ELSE 0)
              /\ violations_total' = violations_total + failed(VIOLATION)
              /\ warnings_total' = warnings_total + failed(WARNING)
              /\ info_total' = info_total
                     + (IF ~passed /\ check_at.severity \notin {VIOLATION, WARNING}
                        THEN 1 ELSE 0)
              /\ results' = Append(results,
                     CheckResult(check_at, check_at.message, passed, FALSE,
                                 violating_nodes, query_at))
    /\ idx' = idx + 1
    /\ UNCHANGED <<plan, backend, op, pc, compiled, vacuous_total, empty_labels,
                   empty_props, labels_todo, props_todo, ret, exc, input, output>>

\* the loop is over: the report is assembled and returned
Finish ==
    /\ pc = "run" /\ labels_todo = {} /\ props_todo = {} /\ idx > Len(compiled)
    /\ ret' = [conforms |-> violations_total = 0,
               schema_source |-> plan.schema_source,
               backend |-> backend,
               summary |-> [violations |-> violations_total,
                            warnings |-> warnings_total,
                            info |-> info_total,
                            checks_passed |-> passed_total,
                            checks_vacuous |-> vacuous_total,
                            checks_total |-> Len(compiled)],
               results |-> results]
    /\ pc' = "done"
    /\ UNCHANGED <<plan, backend, op, compiled, results, violations_total,
                   warnings_total, info_total, passed_total, vacuous_total, empty_labels,
                   empty_props, labels_todo, props_todo, idx, session_log, exc, input,
                   output>>

Next ==
    \/ CompilePlan
    \/ DryRun
    \/ ExecuteBegin
    \/ CountLabel
    \/ SkipProp
    \/ CountProp
    \/ PreflightRaises
    \/ CheckNoop
    \/ CheckVacuous
    \/ CheckRaises
    \/ CheckRuns
    \/ Finish

Spec == Init /\ [][Next]_vars

\* ------------------------------------------------------------------------
\* properties of the runner
\* ------------------------------------------------------------------------
Returned == pc = "done" /\ exc = NoException
Reported == op = "execute_plan" /\ Returned
\* the session.run calls made for the check at position i
RunsOf(i) == {k \in 1..Len(session_log) :
                 session_log[k].kind = "check" /\ session_log[k].idx = i}
\* a result that is a failure: neither passed nor set aside as vacuous
Failed(r) == ~r.passed /\ ~r.vacuous
\* a compiled text that is only a comment
CommentOnly(query) == query # <<>> /\ query[1] = "//"

\* C1: the report conforms exactly when no check of severity violation failed;
\* failures of warning and info checks, of whatever cause, leave conforms true.
C1_ConformsIffNoViolationFailed ==
    Reported =>
        (ret.conforms <=>
            \A i \in 1..Len(ret.results) :
                ~(ret.results[i].severity = VIOLATION /\ Failed(ret.results[i])))

\* C2: a check whose query raised has a result with passed = FALSE and a message
\* that carries the error text; no exception leaves execute_plan; and once
\* execute_plan is over every check of the plan has its own result, in plan order.
C2_QueryFailureIsRecorded ==
    (\E k \in 1..Len(session_log) :
        session_log[k].kind = "check" /\ session_log[k].error # "")
    => /\ exc = NoException
       /\ \A k \in 1..Len(session_log) :
             (session_log[k].kind = "check" /\ session_log[k].error # "")
             => LET i == session_log[k].idx
                IN  /\ i <= Len(results)
                    /\ results[i].check_id = plan.checks[i].id
                    /\ ~results[i].passed
                    /\ results[i].message
                           = "Query execution failed: " \o session_log[k].error
       /\ pc = "done" =>
             /\ ret # NoReport
             /\ Len(ret.results) = Len(plan.checks)
             /\ \A i \in 1..Len(plan.checks) :
                   ret.results[i].check_id = plan.checks[i].id

\* C2 witness: the first query of a two-check plan raised, the second check still
\* ran and passed, and the report was returned.
C2_Witness ==
    /\ Reported
    /\ Len(ret.results) = 2
    /\ \E k \in 1..Len(session_log) :
          session_log[k].kind = "check" /\ session_log[k].idx = 1
          /\ session_log[k].error # ""
    /\ ~ret.results[1].passed
    /\ ret.results[2].passed
    /\ RunsOf(2) # {}

\* C3 as stated: every check whose target type was counted empty is reported
\* vacuous and its query is not executed.
C3_EveryEmptyTargetIsVacuous ==
    \A i \in 1..Len(results) :
        results[i].target_label \in empty_labels
        => results[i].vacuous /\ RunsOf(i) = {}

\* C3 amended: a check, other than an empty-population check, whose target type
\* was counted empty is reported vacuous and not passed, its query is not executed,
\* and no tally but the vacuous one counts it; conforms depends on the other
\* checks only.
C3_EmptyTargetIsVacuous ==
    /\ \A i \in 1..Len(results) :
          (results[i].target_label \in empty_labels
           /\ results[i].check_type # "empty_shape")
          => /\ results[i].vacuous /\ ~results[i].passed
             /\ RunsOf(i) = {}
    /\ passed_total
          = Cardinality({i \in 1..Len(results) : results[i].passed /\ ~results[i].vacuous})
    /\ violations_total + warnings_total + info_total
          = Cardinality({i \in 1..Len(results) : Failed(results[i])})
    /\ vacuous_total = Cardinality({i \in 1..Len(results) : results[i].vacuous})
    /\ Reported =>
          (ret.conforms <=>
              \A i \in 1..Len(ret.results) :
                  Failed(ret.results[i])
                  => /\ ret.results[i].severity # VIOLATION
                     /\ \A k \in RunsOf(i) : session_log[k].error = "")

\* C3 witness: a property check on an empty type was set aside as vacuous in a
\* report that was returned.
C3_Witness ==
    /\ Reported
    /\ \E i \in 1..Len(ret.results) :
          /\ ret.results[i].target_label \in empty_labels
          /\ ret.results[i].check_type = "property_exists"
          /\ ret.results[i].vacuous

\* C4: a relationship-cardinality check with minimum 0 or unset and no maximum
\* compiles to a comment-only text under either backend; a check whose compiled
\* text is comment-only is never sent to the database and is reported passed, or
\* vacuous when its target type was counted empty.
C4_NoopNeverExecuted ==
    /\ \A i \in 1..Len(compiled) :
          LET c == compiled[i].check
          IN  (c.type = "relationship_cardinality"
               /\ (IsNone(c.min_count) \/ c.min_count = Some(0))
               /\ IsNone(c.max_count))
              => CommentOnly(compiled[i].query)
    /\ \A i \in 1..Len(results) :
          CommentOnly(compiled[i].query)
          => /\ \A k \in 1..Len(session_log) :
                   session_log[k].query # compiled[i].query
             /\ results[i].vacuous = (results[i].target_label \in empty_labels)
             /\ results[i].passed = ~results[i].vacuous

\* C4 witness: under the Cypher backend one unconstrained cardinality check was
\* reported passed and another, with the minimum unset, vacuous.
C4_Witness ==
    /\ Reported /\ backend = "cypher"
    /\ \E i, j \in 1..Len(ret.results) :
          /\ compiled[i].check.min_count = Some(0) /\ CommentOnly(compiled[i].query)
          /\ ret.results[i].passed
          /\ IsNone(compiled[j].check.min_count) /\ CommentOnly(compiled[j].query)
          /\ ret.results[j].vacuous

\* C4 witness under the other backend
C4_WitnessGql ==
    /\ Reported /\ backend = "gql"
    /\ \E i \in 1..Len(ret.results) :
          /\ compiled[i].check.type = "relationship_cardinality"
          /\ CommentOnly(compiled[i].query)
          /\ ret.results[i].passed

\* C5: a check whose query ran without error passed exactly when no record came
\* back; otherwise its result has one entry per record, in order, with the
\* record's element id (node_id, else rel_id), its label list (labels, else
\* source_labels) and every column that is not an id, a label list or check_id.
C5_EntryPerRecord ==
    \A k \in 1..Len(session_log) :
        (session_log[k].kind = "check" /\ session_log[k].error = "")
        => LET r == results[session_log[k].idx]
               records == session_log[k].records
           IN  /\ r.passed <=> records = <<>>
               /\ ~r.vacuous
               /\ Len(r.violating_nodes) = Len(records)
               /\ \A n \in 1..Len(records) :
                     LET rec == records[n]
                         vn == r.violating_nodes[n]
                     IN  /\ "node_id" \in DOMAIN rec => vn.node_id = Str(rec.node_id)
                         /\ ("node_id" \notin DOMAIN rec /\ "rel_id" \in DOMAIN rec)
                                => vn.node_id = Str(rec.rel_id)
                         /\ "labels" \in DOMAIN rec => vn.labels = rec.labels
                         /\ ("labels" \notin DOMAIN rec /\ "source_labels" \in DOMAIN rec)
                                => vn.labels = rec.source_labels
                         /\ \A col \in DOMAIN rec :
                                col \notin {"node_id", "rel_id", "labels", "source_labels",
                                            "target_labels", "check_id"}
                                => col \in DOMAIN vn.extra /\ vn.extra[col] = rec[col]

\* C5 witness: a query returned a relationship record and a record without id,
\* and the report that was returned holds both.
C5_Witness ==
    /\ Reported
    /\ \E i \in 1..Len(ret.results) :
          /\ Len(ret.results[i].violating_nodes) = 2
          /\ ret.results[i].violating_nodes[1].node_id = "5:2"
          /\ ~ret.results[i].passed

\* the header line dry_run writes for a check
HeaderOf(check) ==
    CASE check.severity = VIOLATION -> "-- [VIOLATION] " \o check.id
      [] check.severity = WARNING -> "-- [WARNING] " \o check.id
      [] check.severity = INFO -> "-- [INFO] " \o check.id
IsHeader(tok) == \E i \in 1..Len(CheckPool) : tok = HeaderOf(CheckPool[i])

C6_WitnessDryRun ==
    /\ op = "dry_run" /\ Returned
    /\ Len(plan.checks) = 2 /\ Len(SelectSeq(ret, IsHeader)) = 2

\* ------------------------------------------------------------------------
\* the parsers, applied to bounded schemas
\* ------------------------------------------------------------------------
NoMapping == Mapping(EmptyTable, EmptyTable, EmptyTable)
PredP == <<"e", "x", "/", "p">>
PredQ == <<"e", "x", "/", "q">>
PredH == <<"e", "x", "/", "h">>
ShapeIriA == <<"e", "x", "/", "A", "S">>
XsdString == XsdIri(<<"s","t","r","i","n","g">>)
XsdInteger == XsdIri(<<"i","n","t","e","g","e","r">>)
NodeConstraint(datatype, values) == DictExpr("NodeConstraint", None, datatype, values)
ValueG == [isdict |-> TRUE, value |-> <<"G">>, numeric_type |-> FALSE, coerced |-> None]
Value7 == [isdict |-> TRUE, value |-> <<"7">>, numeric_type |-> TRUE, coerced |-> Some(7)]

\* the triple constraints a ShExC shape is built from
TripleConstraintPool ==
    << TripleConstraint(PredP, NodeConstraint(Some(XsdString), None), None, None),
       TripleConstraint(PredP, NodeConstraint(Some(XsdString), None), Some(0), Some(1)),
       TripleConstraint(PredP, NoValueExpr, Some(0), Some(1)),
       TripleConstraint(PredQ, NodeConstraint(None, Some(<<ValueG, Value7>>)),
                        Some(0), Some(-1)),
       TripleConstraint(PredH, ShapeRefExpr(IriB), Some(0), Some(-1)),
       TripleConstraint(PredQ, NodeConstraint(Some(XsdInteger), None), Some(1), Some(-1)) >>

ShexcExpression(q) ==
    IF Len(q) = 1 THEN TripleConstraintPool[q[1]]
    ELSE EachOf([i \in 1..Len(q) |-> TripleConstraintPool[q[i]]])
ShexcSchemas ==
    {<< [id |-> IriA, expression |-> Some(ShexcExpression(q))],
        [id |-> IriB, expression |-> None] >> :
        q \in SeqsUpTo(MaxConstraints, Len(TripleConstraintPool)) \ {<<>>}}

\* the property shapes a SHACL node shape is built from
PropertyNodePool ==
    << [PropertyNode(UriPath(PredP)) EXCEPT !.datatype = Some(XsdString),
                                            !.minCount = Some(1)],
       [PropertyNode(UriPath(PredP)) EXCEPT !.datatype = Some(XsdString)],
       PropertyNode(UriPath(PredP)),
       [PropertyNode(UriPath(PredQ)) EXCEPT !.datatype = Some(XsdString),
                                            !.in = Some(<<PyStr(<<"G">>), PyInt(7)>>),
                                            !.minCount = Some(0)],
       [PropertyNode(UriPath(PredQ)) EXCEPT !.minCount = Some(1),
                                            !.pattern = Some(<<"^", "x", "'">>),
                                            !.flags = Some(<<"i">>),
                                            !.minLength = Some(1),
                                            !.maxInclusive = Some(9),
                                            !.lessThan = Some(PredP),
                                            !.uniqueLang = Some(TRUE),
                                            !.severity = Some(SH_Warning)],
       [PropertyNode(UriPath(PredH)) EXCEPT !.class = Some(IriB)],
       [PropertyNode(UriPath(PredQ)) EXCEPT !.hasValue = Some(PyStr(<<"G">>)),
                                            !.qualifiedValueShape =
                                                Some([datatype |-> Some(XsdInteger),
                                                      class |-> None, in |-> None]),
                                            !.qualifiedMinCount = Some(1)],
       [PropertyNode(InversePath(PredH)) EXCEPT !.nodeKind = Some(SH_IRI),
                                                !.minCount = Some(1),
                                                !.maxCount = Some(2)] >>

\* the inner shapes a combinator refers to
InnerShapePool ==
    << [property |-> << [PropertyNode(UriPath(PredP))
                            EXCEPT !.datatype = Some(XsdString)] >>],
       [property |-> << [PropertyNode(UriPath(PredQ))
                            EXCEPT !.minInclusive = Some(1), !.minCount = Some(1)] >>] >>

ShaclGraph(shape) == [shapes |-> <<shape>>, subclass |-> <<>>]
\* node shapes with 1..MaxConstraints property shapes
ShaclPropertySchemas ==
    {ShaclGraph(NodeShape(ShapeIriA, <<IriA>>,
                          [i \in 1..Len(q) |-> PropertyNodePool[q[i]]])) :
        q \in SeqsUpTo(MaxConstraints, Len(PropertyNodePool)) \ {<<>>}}
\* node shapes with 0..MaxConstraints sh:not and, maybe, one other combinator
ShaclLogicalSchemas ==
    {ShaclGraph([NodeShape(ShapeIriA, <<IriA>>, <<PropertyNodePool[1]>>)
                    EXCEPT !.not = [i \in 1..Len(q) |-> InnerShapePool[q[i]]],
                           !.and = IF k = "and" THEN Some(InnerShapePool) ELSE None,
                           !.or = IF k = "or" THEN Some(InnerShapePool) ELSE None,
                           !.xone = IF k = "xone" THEN Some(InnerShapePool) ELSE None,
                           !.closed = IF k = "closed" THEN Some(TRUE) ELSE None]) :
        q \in SeqsUpTo(MaxConstraints, Len(InnerShapePool)),
        k \in {"", "and", "or", "xone", "closed"}}

\* A constraint set that both grammars can state, on type A of a schema that
\* declares the types A and B: attribute constraints [pred, datatype, values,
\* min, max] with a datatype, a value set or neither, and relationship
\* constraints [pred, target, min, max]; max is None when unbounded.  A value
\* of a value set is its text and, for an integer literal, its number.
AttrConstraint(pred, datatype, values, min, max) ==
    [kind |-> "attr", pred |-> pred, datatype |-> datatype, values |-> values,
     target |-> None, min |-> min, max |-> max]
RelConstraint(pred, target, min, max) ==
    [kind |-> "rel", pred |-> pred, datatype |-> None, values |-> None,
     target |-> Some(target), min |-> min, max |-> max]
TextG == [text |-> <<"G">>, number |-> None]
Number7 == [text |-> <<"7">>, number |-> Some(7)]
ConstraintPool ==
    << AttrConstraint(PredP, Some(XsdString), None, 1, Some(1)),
       AttrConstraint(PredP, Some(XsdInteger), None, 0, Some(1)),
       AttrConstraint(PredQ, None, Some(<<TextG, Number7>>), 0, None),
       AttrConstraint(PredQ, None, None, 1, None),
       RelConstraint(PredH, IriB, 0, None),
       RelConstraint(PredH, IriB, 1, Some(1)),
       RelConstraint(PredH, IriB, 0, Some(2)) >>
ConstraintSets ==
    {[i \in 1..Len(q) |-> ConstraintPool[q[i]]] :
        q \in SeqsUpTo(MaxConstraints, Len(ConstraintPool)) \ {<<>>}}

\* The ShExC encoding: a triple constraint per constraint, the cardinality
\* left out where it is the grammar's default {1,1}, -1 for an unbounded maximum.
ShexcTriple(c) ==
    TripleConstraint(c.pred,
        IF c.kind = "rel" THEN ShapeRefExpr(Val(c.target))
        ELSE IF c.datatype # None THEN NodeConstraint(c.datatype, None)
        ELSE IF c.values # None
        THEN NodeConstraint(None,
                 Some([i \in 1..Len(Val(c.values)) |->
                          [isdict |-> TRUE, value |-> Val(c.values)[i].text,
                           numeric_type |-> Val(c.values)[i].number # None,
                           coerced |-> Val(c.values)[i].number]]))
        ELSE NoValueExpr,
        IF c.min = 1 THEN None ELSE Some(c.min),
        IF c.max = Some(1) THEN None ELSE IF c.max = None THEN Some(-1) ELSE c.max)
ShexcEncoding(cs) ==
    << [id |-> IriA,
        expression |-> Some(IF Len(cs) = 1 THEN ShexcTriple(cs[1])
                            ELSE EachOf([i \in 1..Len(cs) |-> ShexcTriple(cs[i])]))],
       [id |-> IriB, expression |-> None] >>

\* The SHACL encoding: a property shape per constraint, sh:minCount left
\* out where it is the grammar's default 0, sh:maxCount where it is unbounded.
ShaclProperty(c) ==
    [PropertyNode(UriPath(c.pred))
        EXCEPT !.class = c.target,
               !.datatype = c.datatype,
               !.in = IF c.values = None THEN None
                      ELSE Some([i \in 1..Len(Val(c.values)) |->
                                   IF Val(c.values)[i].number # None
                                   THEN PyInt(Val(Val(c.values)[i].number))
                                   ELSE PyStr(Val(c.values)[i].text)]),
               !.minCount = IF c.min = 0 THEN None ELSE Some(c.min),
               !.maxCount = c.max]
ShaclEncoding(cs) ==
    [shapes |-> << NodeShape(ShapeIriA, <<IriA>>,
                             [i \in 1..Len(cs) |-> ShaclProperty(cs[i])]),
                   NodeShape(IriB, <<>>, <<>>) >>,
     subclass |-> <<>>]

\* two node shapes that target the same class, each with one property shape
ShaclSplitSchemas ==
    {[shapes |-> << NodeShape(ShapeIriA, <<IriA>>, <<PropertyNodePool[i]>>),
                    NodeShape(IriB, <<IriA>>, <<PropertyNodePool[j]>>) >>,
      subclass |-> <<>>] : i \in {1, 6}, j \in {4}}

\* node shapes whose property shapes all declare the same sh:severity
SH_Violation == "sh:Violation"
ShaclSeveritySchemas ==
    {ShaclGraph(NodeShape(ShapeIriA, <<IriA>>,
                          [i \in 1..Len(q) |->
                              [PropertyNodePool[q[i]] EXCEPT !.severity = Some(sev)]])) :
        q \in SeqsUpTo(MaxConstraints, Len(PropertyNodePool)) \ {<<>>},
        sev \in {SH_Warning, SH_Info, SH_Violation}}

ParserIdle == plan = <<>> /\ backend = "" /\ RunnerIdle /\ output = <<>>

InitParse ==
    /\ ParserIdle
    /\ \/ \E sch \in ShexcSchemas \cup {ShexcEncoding(cs) : cs \in ConstraintSets},
                strict \in BOOLEAN :
             input = [format |-> "shexc", schema |-> sch, mapping |-> NoMapping,
                      strict |-> strict]
       \/ \E sch \in ShaclPropertySchemas \cup ShaclLogicalSchemas \cup ShaclSplitSchemas
                       \cup ShaclSeveritySchemas
                       \cup {ShaclEncoding(cs) : cs \in ConstraintSets},
                strict \in BOOLEAN :
             input = [format |-> "shacl", schema |-> sch, mapping |-> NoMapping,
                      strict |-> strict]

\* parse_shexc_to_plan(schema, mapping, strict=strict)
ParseShExC ==
    /\ input.format = "shexc" /\ output = <<>>
    /\ output' = parse_shexc_to_plan(input.schema, input.mapping, input.strict)
    /\ UNCHANGED <<runner_vars, input>>

\* parse_shacl_to_plan(schema, mapping, strict=strict)
ParseShacl ==
    /\ input.format = "shacl" /\ output = <<>>
    /\ output' = parse_shacl_to_plan(input.schema, input.mapping, input.strict)
    /\ UNCHANGED <<runner_vars, input>>

NextParse ==
    \/ ParseShExC
    \/ ParseShacl

SpecParse == InitParse /\ [][NextParse]_vars

\* ------------------------------------------------------------------------
\* compile_check, applied to the checks the parsers emit
\* ------------------------------------------------------------------------
\* schemas that between them make the parsers emit every kind they can
RichShexc ==
    << [id |-> IriA, expression |-> Some(EachOf(TripleConstraintPool))],
       [id |-> IriB, expression |-> None] >>
RichShacl ==
    ShaclGraph([NodeShape(ShapeIriA, <<IriA>>, PropertyNodePool)
                   EXCEPT !.not = InnerShapePool,
                          !.and = Some(InnerShapePool),
                          !.or = Some(InnerShapePool),
                          !.xone = Some(InnerShapePool),
                          !.closed = Some(TRUE)])
\* kinds the enum declares and no parser emits
HandBuilt ==
    << Check("a-closed", "closed_shape", Some(IriA), LabelA, VIOLATION, "A is closed"),
       [Check("a-h-endpoint", "relationship_endpoint", Some(IriA), LabelA, VIOLATION,
              "H must connect A to B")
           EXCEPT !.relationship = Some(RelationshipTarget(RelH, "outgoing", LabelB))] >>
\* the value checks: kinds that test the value of one attribute
ValueKinds ==
    {"property_type", "property_value_in", "property_pattern",
     "property_string_length", "property_range"}
IsValueCheck(check) == check.type \in ValueKinds
\* the value checks of a list, each with the other value of only_if_exists
OtherOptionality(checks) ==
    LET value_checks == SelectSeq(checks, IsValueCheck)
    IN  [i \in 1..Len(value_checks) |->
            [value_checks[i] EXCEPT !.only_if_exists = ~@]]
\* a relationship to a class that has a subclass: C rdfs:subClassOf B
IriC == <<"e", "x", "/", "C">>
HierarchyShacl ==
    [shapes |-> << NodeShape(ShapeIriA, <<IriA>>,
                     << [PropertyNode(UriPath(PredH)) EXCEPT !.class = Some(IriB),
                                                             !.nodeKind = Some(SH_IRI),
                                                             !.minCount = Some(1)],
                        [PropertyNode(InversePath(PredH)) EXCEPT !.class = Some(IriB),
                                                                 !.maxCount = Some(2)] >>) >>,
     subclass |-> << <<IriC, IriB>> >>]
\* a qualified value shape that is a value set
QualifiedShacl ==
    ShaclGraph(NodeShape(ShapeIriA, <<IriA>>,
        << [PropertyNode(UriPath(PredQ))
               EXCEPT !.qualifiedValueShape =
                          Some([datatype |-> None, class |-> None,
                                in |-> Some(<<PyStr(<<"G">>), PyInt(7)>>)]),
                      !.qualifiedMaxCount = Some(1)] >>))
\* combinators over inner shapes: one numeric range, and two required attributes
LogicalShacl(inner) ==
    ShaclGraph([NodeShape(ShapeIriA, <<IriA>>, <<>>)
                   EXCEPT !.and = Some(inner), !.or = Some(inner), !.xone = Some(inner)])
InnerRange ==
    << [property |-> << [PropertyNode(UriPath(PredQ)) EXCEPT !.minInclusive = Some(1)] >>] >>
InnerRequired ==
    << [property |-> << [PropertyNode(UriPath(PredP)) EXCEPT !.minCount = Some(1)] >>],
       [property |-> << [PropertyNode(UriPath(PredQ)) EXCEPT !.minCount = Some(1)] >>] >>
\* a negated shape that requires both attributes
InnerBoth ==
    << [property |-> << [PropertyNode(UriPath(PredP)) EXCEPT !.minCount = Some(1)],
                        [PropertyNode(UriPath(PredQ)) EXCEPT !.minCount = Some(1)] >>] >>
\* sh:not over each of the inner shapes
NegationShacl(inner) ==
    ShaclGraph([NodeShape(ShapeIriA, <<IriA>>, <<>>) EXCEPT !.not = inner])
\* the SHACL schemas whose checks are compiled, each with its strict flag
ShaclPoolSchemas ==
    << [schema |-> RichShacl, strict |-> TRUE],
       [schema |-> HierarchyShacl, strict |-> FALSE],
       [schema |-> QualifiedShacl, strict |-> FALSE],
       [schema |-> LogicalShacl(InnerRange), strict |-> FALSE],
       [schema |-> LogicalShacl(InnerRequired), strict |-> FALSE],
       [schema |-> NegationShacl(InnerRange \o InnerRequired \o InnerBoth),
        strict |-> FALSE] >>
\* the checks of the plans the parsers return for the schemas
ParsedPool ==
    parse_shexc_to_plan(RichShexc, NoMapping, TRUE).checks
    \o Flatten([i \in 1..Len(ShaclPoolSchemas) |->
           (CHOOSE p \in {parse_shacl_to_plan(g.schema, NoMapping, g.strict) :
                             g \in {ShaclPoolSchemas[i]}} : TRUE).checks])
\* the pairs (sh:qualifiedMinCount, sh:qualifiedMaxCount) a property shape may state
QualifiedBoundPool ==
    << <<None, None>>, <<Some(2), None>>, <<None, Some(0)>>, <<None, Some(2)>>,
       <<Some(1), Some(5)>>, <<Some(2), Some(2)>> >>
IsQualifiedCheck(check) == check.type = "qualified_cardinality"
\* the qualified-cardinality checks of a list under every pair of bounds
OtherQualifiedBounds(checks) ==
    LET qualified == SelectSeq(checks, IsQualifiedCheck)
    IN  Flatten([i \in 1..Len(qualified) |->
            [j \in 1..Len(QualifiedBoundPool) |->
                [qualified[i] EXCEPT !.qualified_min = QualifiedBoundPool[j][1],
                                     !.qualified_max = QualifiedBoundPool[j][2]]]])
CompilePool ==
    CHOOSE pool \in {parsed \o OtherOptionality(parsed) \o OtherQualifiedBounds(parsed)
                       \o HandBuilt : parsed \in {ParsedPool}} : TRUE

InitCompile ==
    /\ ParserIdle
    /\ \E pool \in {CompilePool} :
          \E i \in 1..Len(pool), b \in Backends :
             input = [format |-> "check", check |-> pool[i], backend |-> b]

\* backend.compile_check(check)
CompileCheck ==
    /\ input.format = "check" /\ output = <<>>
    /\ output' = compile_check(input.backend, input.check)
    /\ UNCHANGED <<runner_vars, input>>

NextCompile == CompileCheck

SpecCompile == InitCompile /\ [][NextCompile]_vars

\* ------------------------------------------------------------------------
\* properties of compile_check
\* ------------------------------------------------------------------------
\* the kinds a backend has a generator for
HasGenerator(b, kind) ==
    IF b = "cypher" THEN kind \in CypherDispatch ELSE kind \in GqlDispatch

C7_WitnessGql ==
    /\ input.format = "check" /\ output # <<>>
    /\ input.backend = "gql" /\ input.check.type = "closed_shape"
    /\ ~output.ok

\* ------------------------------------------------------------------------
\* properties of the parsers
\* ------------------------------------------------------------------------
Parsed == input.format \in {"shexc", "shacl"} /\ output # <<>>

\* The attribute constraints of the parsed schema, each as [attr, min, facets]:
\* the attribute it constrains, its minimum occurrence (1 by default in ShExC,
\* 0 in SHACL) and the number of datatype and value-set facets it declares.
ShexcConstraints ==
    LET expr == Val(input.schema[1].expression)
        tcs == IF expr.type = "EachOf" THEN expr.expressions ELSE <<expr>>
        attrs == SelectSeq(tcs, LAMBDA tc : tc.valueExpr.py # "str")
    IN  [i \in 1..Len(attrs) |->
            [attr |-> local_name(attrs[i].predicate),
             min |-> IF attrs[i].min = None THEN 1 ELSE Val(attrs[i].min),
             facets |-> IF attrs[i].valueExpr.py # "dict" THEN 0
                        ELSE (IF attrs[i].valueExpr.datatype # None THEN 1 ELSE 0)
                             + (IF attrs[i].valueExpr.values # None THEN 1 ELSE 0)]]
ShaclConstraints ==
    LET pns == Flatten([i \in 1..Len(input.schema.shapes) |->
                            input.schema.shapes[i].property])
        attrs == SelectSeq(pns, LAMBDA pn :
                     /\ Val(pn.path).kind = "uri"
                     /\ IF pn.nodeKind # None
                        THEN Val(pn.nodeKind) \notin {SH_IRI, SH_BlankNodeOrIRI}
                        ELSE pn.node = None /\ pn.class = None)
    IN  [i \in 1..Len(attrs) |->
            [attr |-> local_name(Val(attrs[i].path).iri),
             min |-> IF attrs[i].minCount = None THEN 0 ELSE Val(attrs[i].minCount),
             facets |-> (IF attrs[i].datatype # None THEN 1 ELSE 0)
                        + (IF attrs[i].in # None THEN 1 ELSE 0)
                        + (IF attrs[i].hasValue # None THEN 1 ELSE 0)]]
Constraints == IF input.format = "shexc" THEN ShexcConstraints ELSE ShaclConstraints

\* the checks of the plan on an attribute, by kind
ExistenceChecks(attr) ==
    SelectSeq(output.checks,
              LAMBDA c : c.type = "property_exists" /\ c.property = Some(attr))
TypeValueChecks(attr) ==
    SelectSeq(output.checks,
              LAMBDA c : c.type \in {"property_type", "property_value_in"}
                         /\ c.property = Some(attr))
RECURSIVE Sum(_)
Sum(ns) == IF ns = <<>> THEN 0 ELSE Head(ns) + Sum(Tail(ns))
On(attr) == SelectSeq(Constraints, LAMBDA k : k.attr = attr)

\* C8 as stated: an attribute constraint with minimum 0 leaves no existence
\* check for its attribute and exactly one type/value check, with only_if_exists
\* set; one with minimum 1 or more leaves exactly one existence check.
C8_ExactlyOneTypeValueCheck ==
    Parsed =>
        \A n \in 1..Len(Constraints) :
            LET k == Constraints[n]
            IN  IF k.min = 0
                THEN /\ ExistenceChecks(k.attr) = <<>>
                     /\ Len(TypeValueChecks(k.attr)) = 1
                     /\ TypeValueChecks(k.attr)[1].only_if_exists
                ELSE Len(ExistenceChecks(k.attr)) = 1

\* C8 amended: every attribute constraint with minimum 1 or more yields one
\* existence check and one with minimum 0 yields none; every constraint yields one
\* type/value check per datatype or value-set facet it declares (none when it
\* declares none), with only_if_exists set exactly when its minimum is 0.
C8_OptionalityLaw ==
    Parsed =>
        \A n \in 1..Len(Constraints) :
            LET attr == Constraints[n].attr
                required == SelectSeq(On(attr), LAMBDA k : k.min >= 1)
                optional == SelectSeq(On(attr), LAMBDA k : k.min = 0)
                facets(ks) == Sum([i \in 1..Len(ks) |-> ks[i].facets])
            IN  /\ Len(ExistenceChecks(attr)) = Len(required)
                /\ Len(TypeValueChecks(attr)) = facets(On(attr))
                /\ Len(SelectSeq(TypeValueChecks(attr), LAMBDA c : c.only_if_exists))
                       = facets(optional)

\* C8 witness: an optional attribute with a datatype and a value set was parsed
\* into two conditional checks and no existence check.
C8_Witness ==
    /\ Parsed
    /\ \E n \in 1..Len(Constraints) :
          /\ Constraints[n].min = 0 /\ Constraints[n].facets = 2
          /\ Len(On(Constraints[n].attr)) = 1
          /\ Len(TypeValueChecks(Constraints[n].attr)) = 2
          /\ ExistenceChecks(Constraints[n].attr) = <<>>

\* C9: no two checks of a parsed plan have the same id.
C9_UniqueIds ==
    Parsed =>
        \A i, j \in 1..Len(output.checks) :
            i # j => output.checks[i].id # output.checks[j].id

\* the checks of a plan of one kind, each reduced to what parity compares: the
\* attribute or relationship it is on, its bounds and its only_if_exists flag
Comparable(checks, kind) ==
    LET of_kind == SelectSeq(checks, LAMBDA c : c.type = kind)
    IN  [i \in 1..Len(of_kind) |->
            [on |-> IF of_kind[i].relationship # None
                    THEN Val(of_kind[i].relationship).type
                    ELSE IF of_kind[i].property # None THEN Val(of_kind[i].property)
                    ELSE of_kind[i].target_label,
             min_count |-> of_kind[i].min_count,
             max_count |-> of_kind[i].max_count,
             only_if_exists |-> of_kind[i].only_if_exists]]
Occurrences(s, x) == Cardinality({i \in 1..Len(s) : s[i] = x})
SameChecks(plan_a, plan_b) ==
    \A kind \in CheckType :
        LET a == Comparable(plan_a.checks, kind)
            b == Comparable(plan_b.checks, kind)
        IN  /\ Len(a) = Len(b)
            /\ \A x \in Range(a) \cup Range(b) : Occurrences(a, x) = Occurrences(b, x)

\* C11: the plan parsed from the ShExC encoding of a constraint set and the plan
\* parse_shacl_to_plan gives for the SHACL encoding of the same set (and the
\* other way round) have every check kind the same number of times, and the
\* checks on the same attribute or relationship have the same min_count,
\* max_count and only_if_exists.
C11_CrossFormatParity ==
    Parsed =>
        \A cs \in ConstraintSets :
            /\ (input.format = "shexc" /\ input.schema = ShexcEncoding(cs))
                   => SameChecks(output, parse_shacl_to_plan(ShaclEncoding(cs),
                                             input.mapping, input.strict))
            /\ (input.format = "shacl" /\ input.schema = ShaclEncoding(cs))
                   => SameChecks(output, parse_shexc_to_plan(ShexcEncoding(cs),
                                             input.mapping, input.strict))

\* C11 witness: the SHACL encoding of a set with an optional attribute and an
\* unbounded relationship was parsed, in strict mode, into a plan that has a
\* conditional type check and a cardinality check without a maximum.
C11_Witness ==
    /\ Parsed /\ input.format = "shacl" /\ input.strict
    /\ \E cs \in ConstraintSets : input.schema = ShaclEncoding(cs)
    /\ \E c \in Range(output.checks) : c.type = "property_type" /\ c.only_if_exists
    /\ \E c \in Range(output.checks) :
          c.type = "relationship_cardinality" /\ c.max_count = None

\* id.startswith(prefix)
StartsWith(id, prefix) == Len(id) >= Len(prefix) /\ SubSeq(id, 1, Len(prefix)) = prefix
\* the types the parsed schema declares
DeclaredTypes == {label_for(input.mapping, iri) : iri \in Range(output.shapes)}

\* C12: with strict set, the checks whose id is prefixed "strict-" are the last
\* 2 + 2N of the plan, N the number of declared types: one undeclared-label
\* check, one undeclared-relationship-type check, and for every declared type
\* one undeclared-attribute check and one empty-population check, all of severity
\* WARNING; without strict, no check has an id prefixed "strict-".
C12_StrictAppendsTwoPlusTwoN ==
    Parsed =>
        LET checks == output.checks
            n == Len(checks)
            appended == 2 + 2 * Cardinality(DeclaredTypes)
            IsStrict(i) == StartsWith(checks[i].id, "strict-")
            tail == {i \in 1..n : i > n - appended}
            Of(kind) == {i \in tail : checks[i].type = kind}
            OfOn(kind, t) == {i \in Of(kind) : checks[i].target_label = t}
        IN  IF input.strict
            THEN /\ n >= appended
                 /\ \A i \in 1..n : IsStrict(i) <=> i \in tail
                 /\ \A i \in tail : checks[i].severity = WARNING
                 /\ Cardinality(Of("undeclared_labels")) = 1
                 /\ Cardinality(Of("undeclared_relationship_types")) = 1
                 /\ \A t \in DeclaredTypes :
                       /\ Cardinality(OfOn("undeclared_properties", t)) = 1
                       /\ Cardinality(OfOn("empty_shape", t)) = 1
            ELSE \A i \in 1..n : ~IsStrict(i)

\* The relationship constraints of the parsed schema in schema order, each as
\* [min, max, unbounded]: the minimum and maximum the schema states (None when
\* it states none) and whether the maximum is unbounded (-1 in ShExJ, no
\* sh:maxCount in SHACL).
ShexcRelConstraints ==
    LET expr == Val(input.schema[1].expression)
        tcs == IF expr.type = "EachOf" THEN expr.expressions ELSE <<expr>>
        rels == SelectSeq(tcs, LAMBDA tc : is_shape_reference(tc.valueExpr))
    IN  [i \in 1..Len(rels) |->
            [min |-> rels[i].min, max |-> rels[i].max,
             unbounded |-> rels[i].max = Some(-1)]]
ShaclRelConstraints ==
    LET pns == Flatten([i \in 1..Len(input.schema.shapes) |->
                            input.schema.shapes[i].property])
        rels == SelectSeq(pns, LAMBDA pn :
                    is_relationship_constraint(pn.nodeKind, pn.node, pn.class,
                                               pn.datatype))
    IN  [i \in 1..Len(rels) |->
            [min |-> rels[i].minCount, max |-> rels[i].maxCount,
             unbounded |-> rels[i].maxCount = None]]
RelConstraints ==
    IF input.format = "shexc" THEN ShexcRelConstraints ELSE ShaclRelConstraints
\* the cardinality checks of the plan, in plan order
CardinalityChecks ==
    SelectSeq(output.checks, LAMBDA c : c.type = "relationship_cardinality")

\* C13 as stated: every relationship constraint has one cardinality check, whose
\* max_count is None when the maximum is unbounded and is never a sentinel
\* number, and whose min_count is 0 when the schema states no minimum.
C13_MinDefaultsToZero ==
    Parsed =>
        /\ Len(CardinalityChecks) = Len(RelConstraints)
        /\ \A i \in 1..Len(RelConstraints) :
              LET k == RelConstraints[i]
                  c == CardinalityChecks[i]
              IN  /\ k.unbounded => c.max_count = None
                  /\ c.max_count # None => Val(c.max_count) >= 0
                  /\ k.min = None => c.min_count = Some(0)

\* C13 amended: every relationship constraint has one cardinality check, whose
\* max_count is None exactly when the maximum is unbounded and is never a
\* sentinel number; when the schema states no minimum, min_count is the
\* grammar's default, 0 in SHACL and 1 in ShExC, and when it states no maximum,
\* max_count is 1 in ShExC; a stated bound is carried over unchanged.
C13_BoundsFollowGrammarDefaults ==
    Parsed =>
        /\ Len(CardinalityChecks) = Len(RelConstraints)
        /\ \A i \in 1..Len(RelConstraints) :
              LET k == RelConstraints[i]
                  c == CardinalityChecks[i]
              IN  /\ k.unbounded <=> c.max_count = None
                  /\ c.max_count # None => Val(c.max_count) >= 0
                  /\ c.min_count =
                        IF k.min # None THEN k.min
                        ELSE IF input.format = "shacl" THEN Some(0) ELSE Some(1)
                  /\ ~k.unbounded =>
                        c.max_count = IF k.max # None THEN k.max ELSE Some(1)

\* C13 witness: a ShExC relationship constraint that states no cardinality was
\* parsed into a check with the bounds 1..1, next to or apart from an unbounded one.
C13_Witness ==
    /\ Parsed /\ input.format = "shexc"
    /\ \E i \in 1..Len(RelConstraints) :
          /\ RelConstraints[i].min = None /\ RelConstraints[i].max = None
          /\ CardinalityChecks[i].min_count = Some(1)
          /\ CardinalityChecks[i].max_count = Some(1)

\* C13 witness for SHACL: a property shape with sh:class and no counts was
\* parsed into a check with min_count 0 and no max_count.
C13_WitnessShacl ==
    /\ Parsed /\ input.format = "shacl"
    /\ \E i \in 1..Len(RelConstraints) :
          /\ RelConstraints[i].min = None /\ RelConstraints[i].unbounded
          /\ CardinalityChecks[i].min_count = Some(0)
          /\ CardinalityChecks[i].max_count = None

\* ------------------------------------------------------------------------
\* what a compiled query selects: its filter read under the three-valued
\* logic of Cypher and GQL ("T" true, "F" false, "N" null); a row is returned
\* only when the filter is true
\* ------------------------------------------------------------------------
\* An element gives every attribute name the list of its values: <<>> when it
\* lacks the attribute, one value for a scalar, more for a list.
AttrNames == {"p", "q"}
AttrValuePool ==
    << <<>>, <<PyStr(<<"G">>)>>, <<PyStr(<<"x", "'">>)>>, <<PyInt(7)>>, <<PyInt(0)>>,
       <<PyInt(7), PyInt(8)>> >>
\* an element names, for every attribute, an entry of the pool
Elements == [AttrNames -> 1..Len(AttrValuePool)]
ValuesOf(e, name) == AttrValuePool[e[name]]

Bool3(b) == IF b THEN "T" ELSE "F"
Not3(a) == CASE a = "T" -> "F" [] a = "F" -> "T" [] OTHER -> "N"
And3(a, b) ==
    IF a = "F" \/ b = "F" THEN "F" ELSE IF a = "N" \/ b = "N" THEN "N" ELSE "T"
Or3(a, b) ==
    IF a = "T" \/ b = "T" THEN "T" ELSE IF a = "N" \/ b = "N" THEN "N" ELSE "F"

\* the integer a numeric token stands for
NumberOf(tok) == CHOOSE k \in -1..20 : ToString(k) = tok
\* the name value_type gives the value of an attribute
TypeNameOf(vals) ==
    IF Len(vals) > 1 THEN "LIST"
    ELSE CASE vals[1].py = "str" -> "STRING"
           [] vals[1].py = "int" -> "INTEGER"
           [] vals[1].py = "bool" -> "BOOLEAN"
\* lit is one of the members of the list literal s
InListLiteral(lit, s) ==
    \E i \in 2..(Len(s) - Len(lit)) :
        /\ SubSeq(s, i, i + Len(lit) - 1) = lit
        /\ SubSeq(s, i - 1, i - 1) \in {"[", " "}
        /\ SubSeq(s, i + Len(lit), i + Len(lit)) \in {"]", ","}
\* n.a IN [..]: null for a missing attribute, false for a list
Member3(vals, list) ==
    IF vals = <<>> THEN "N"
    ELSE IF Len(vals) > 1 THEN "F"
    ELSE Bool3(InListLiteral(gql_literal(vals[1]), list))
\* x op k: null unless x is a number
Compare3(vals, cmp, k) ==
    IF vals = <<>> \/ Len(vals) > 1 THEN "N"
    ELSE IF vals[1].py # "int" THEN "N"
    ELSE Bool3(CASE cmp = "<" -> vals[1].v < k
                 [] cmp = ">" -> vals[1].v > k
                 [] cmp = "<=" -> vals[1].v <= k
                 [] cmp = ">=" -> vals[1].v >= k
                 [] cmp = "<>" -> vals[1].v # k
                 [] cmp = "=" -> vals[1].v = k)
\* size(n.a): the length of a text or of a list, null otherwise
SizeOf(vals) ==
    IF vals = <<>> THEN <<>>
    ELSE IF Len(vals) > 1 THEN <<PyInt(Len(vals))>>
    ELSE IF vals[1].py = "str" THEN <<PyInt(Len(vals[1].v))>>
    ELSE <<>>
\* n.a =~ regex: null unless n.a is a text; the text matches the expression
\* that is its own literal, anchored or not, case-insensitive or not
Match3(vals, regex) ==
    IF vals = <<>> \/ Len(vals) > 1 THEN "N"
    ELSE IF vals[1].py # "str" THEN "N"
    ELSE LET lit == Join(EscapeQuotes(vals[1].v))
         IN  Bool3(regex \in {"'" \o lit \o "'", "'^" \o lit \o "'",
                              "'(?i)" \o lit \o "'", "'(?i)^" \o lit \o "'"})

\* the value and the end of the predicate that starts at token i
EvalAtom(toks, i, e) ==
    CASE toks[i] = "TRUE" -> [v |-> "T", next |-> i + 1]
      [] toks[i] = "n." /\ toks[i + 2] = "IS NOT NULL" ->
             [v |-> Bool3(ValuesOf(e, toks[i + 1]) # <<>>), next |-> i + 3]
      [] toks[i] = "n." /\ toks[i + 2] = "IS NULL" ->
             [v |-> Bool3(ValuesOf(e, toks[i + 1]) = <<>>), next |-> i + 3]
      [] toks[i] = "n." /\ toks[i + 2] = "IN" ->
             [v |-> Member3(ValuesOf(e, toks[i + 1]), toks[i + 3]), next |-> i + 4]
      [] toks[i] = "n." /\ toks[i + 2] = "=~" ->
             [v |-> Match3(ValuesOf(e, toks[i + 1]), toks[i + 3]), next |-> i + 4]
      [] toks[i] = "n." /\ toks[i + 2] \in {"<", ">", "<=", ">="} ->
             [v |-> Compare3(ValuesOf(e, toks[i + 1]), toks[i + 2], NumberOf(toks[i + 3])),
              next |-> i + 4]
      [] toks[i] = "size(" ->
             [v |-> Compare3(SizeOf(ValuesOf(e, toks[i + 2])), toks[i + 4], NumberOf(toks[i + 5])),
              next |-> i + 6]
      [] toks[i] \in {"value_type(", "valueType("} ->
             [v |-> IF ValuesOf(e, toks[i + 2]) = <<>> THEN "N"
                    ELSE Bool3(toks[i + 5] = "'" \o TypeNameOf(ValuesOf(e, toks[i + 2])) \o "'"),
              next |-> i + 6]

\* NOT binds tighter than AND, AND tighter than OR
RECURSIVE EvalOr(_, _, _), EvalAnd(_, _, _), EvalNot(_, _, _)
RECURSIVE OrRest(_, _, _, _), AndRest(_, _, _, _)
EvalNot(toks, i, e) ==
    IF toks[i] = "NOT"
    THEN LET r == EvalNot(toks, i + 1, e) IN [v |-> Not3(r.v), next |-> r.next]
    ELSE IF toks[i] = "("
    THEN LET r == EvalOr(toks, i + 1, e) IN [v |-> r.v, next |-> r.next + 1]
    ELSE EvalAtom(toks, i, e)
AndRest(toks, acc, i, e) ==
    IF i <= Len(toks) /\ toks[i] = "AND"
    THEN LET r == EvalNot(toks, i + 1, e) IN AndRest(toks, And3(acc, r.v), r.next, e)
    ELSE [v |-> acc, next |-> i]
EvalAnd(toks, i, e) ==
    LET r == EvalNot(toks, i, e) IN AndRest(toks, r.v, r.next, e)
OrRest(toks, acc, i, e) ==
    IF i <= Len(toks) /\ toks[i] = "OR"
    THEN LET r == EvalAnd(toks, i + 1, e) IN OrRest(toks, Or3(acc, r.v), r.next, e)
    ELSE [v |-> acc, next |-> i]
EvalOr(toks, i, e) ==
    LET r == EvalAnd(toks, i, e) IN OrRest(toks, r.v, r.next, e)
\* the value of a whole condition for element e
Eval3(toks, e) == EvalOr(toks, 1, e).v

\* the place of the first token t at or after position from, 0 when there is none
FirstAt(toks, t, from) ==
    IF \E i \in from..Len(toks) : toks[i] = t
    THEN CHOOSE i \in from..Len(toks) :
             toks[i] = t /\ \A j \in from..(i - 1) : toks[j] # t
    ELSE 0
\* the tokens of the text between token a and the next token b
Between(text, a, b) ==
    LET i == FirstAt(text, a, 1)
        j == IF i = 0 THEN 0 ELSE FirstAt(text, b, i + 1)
    IN  IF i = 0 \/ j = 0 THEN <<>> ELSE SubSeq(text, i + 1, j - 1)
\* the filter of a query: the condition of its WHERE line
WhereClause(text) == Between(text, "WHERE", NL)
\* the query returns element e
Flagged(text, e) == WhereClause(text) # <<>> /\ Eval3(WhereClause(text), e) = "T"

\* ------------------------------------------------------------------------
\* value checks and the missing attribute
\* ------------------------------------------------------------------------
CompiledCheck == input.format = "check" /\ output # <<>> /\ output.ok
\* the filter is "n.a IS NOT NULL AND <condition>"
HasNonNullGuard(check, text) ==
    LET w == WhereClause(text)
        g == IsNotNull(Val(check.property))
    IN  /\ Len(w) > Len(g) + 1
        /\ SubSeq(w, 1, Len(g)) = g
        /\ w[Len(g) + 1] = "AND"
Lacks(e, check) == ValuesOf(e, Join(Val(check.property))) = <<>>

C14_WitnessPattern ==
    /\ CompiledCheck /\ input.check.type = "property_pattern"
    /\ input.check.only_if_exists
    /\ \E e \in Elements : ~Lacks(e, input.check) /\ Flagged(output.text, e)
    /\ \E e \in Elements : ~Lacks(e, input.check) /\ ~Flagged(output.text, e)

\* ------------------------------------------------------------------------
\* relationship cardinality with a list of acceptable types
\* ------------------------------------------------------------------------
HasAcceptableLabels(check) ==
    /\ check.type = "relationship_cardinality"
    /\ ~IsNone(check.acceptable_labels) /\ Val(check.acceptable_labels) # <<>>
\* the query has a count condition: it is not the no-constraint marker
CountsRelationships(text) == "WITH n, count(r) AS rel_count" \in Range(text)
\* the far endpoint of the counted relationships is any node that has one of
\* the acceptable labels, and the pattern does not name the declared target label
MatchesAnyAcceptable(check, text) ==
    /\ \E i \in 1..(Len(text) - 1) :
          /\ text[i] = "any(lbl IN labels(t) WHERE lbl IN"
          /\ text[i + 1] = gql_list_literal(StrList(Val(check.acceptable_labels)))
    /\ Range(text) \cap {"]->(t:", "]-(t:"} = {}

\* C15: a relationship-cardinality check with a list of acceptable types
\* compiles, in the Cypher backend and in the GQL backend, to a query that
\* counts the relationships whose far endpoint has any label of the list, not
\* only the declared target label.
C15_CountsAnyAcceptableType ==
    (CompiledCheck /\ HasAcceptableLabels(input.check) /\ CountsRelationships(output.text))
    => MatchesAnyAcceptable(input.check, output.text)

\* ------------------------------------------------------------------------
\* the element-identifier function of each backend
\* ------------------------------------------------------------------------
OwnIdFunction(b) == IF b = "cypher" THEN "elementId" ELSE "element_id"
OtherIdFunction(b) == IF b = "cypher" THEN "element_id" ELSE "elementId"
\* the query is sent to the database: it is not a comment-only marker
Executable(text) == text # <<>> /\ Head(text) # "//"
\* the node_id column is the constant 'none'
ReturnsNoElement(text) ==
    \E i \in 1..(Len(text) - 1) : text[i] = "'none'" /\ text[i + 1] = "AS node_id"

\* C16 as stated: every executable query of a backend, whatever the kind of the
\* check, identifies the element with the backend's own function (element_id
\* for GQL, elementId for Cypher) and never contains the other one.
C16_OwnIdFunctionInEveryQuery ==
    (CompiledCheck /\ Executable(output.text))
    => /\ OwnIdFunction(input.backend) \in Range(output.text)
       /\ OtherIdFunction(input.backend) \notin Range(output.text)

\* C16 amended: no executable query contains the other backend's function; the
\* query of every kind but the empty-population check identifies the element
\* with the backend's own function, and the empty-population query, which has
\* no violating element, returns the constant 'none' and calls neither.
C16_NeverTheOtherIdFunction ==
    (CompiledCheck /\ Executable(output.text))
    => /\ OtherIdFunction(input.backend) \notin Range(output.text)
       /\ input.check.type # "empty_shape"
             => /\ OwnIdFunction(input.backend) \in Range(output.text)
                /\ ~ReturnsNoElement(output.text)
       /\ input.check.type = "empty_shape"
             => /\ OwnIdFunction(input.backend) \notin Range(output.text)
                /\ ReturnsNoElement(output.text)

\* C16 witness: the GQL backend compiled a strict-mode check into a query that
\* calls element_id.
C16_Witness ==
    /\ CompiledCheck /\ Executable(output.text)
    /\ input.backend = "gql" /\ input.check.type = "undeclared_properties"
    /\ "element_id" \in Range(output.text)

\* C16 witness for the empty-population check
C16_WitnessEmptyShape ==
    /\ CompiledCheck /\ Executable(output.text)
    /\ input.check.type = "empty_shape" /\ ReturnsNoElement(output.text)

\* ------------------------------------------------------------------------
\* Mapping: the three lookups, applied to bounded identifiers and tables
\* ------------------------------------------------------------------------
IriHasPet == <<"e", "x", "/", "h", "a", "s", "P", "e", "t">>
IriFragment == <<"e", "x", "#", "A", "b", "C">>
\* the identifiers looked up: "/" only, "#" only, "/" after the last "#",
\* several "#", no separator, and a separator at the end
LookupIris ==
    { IriHasPet, IriFragment,
      <<"a", "/", "b", "#", "c", "/", "D", "e">>,
      <<"a", "#", "b", "/", "c", "#", "d", "E", "F">>,
      <<"P", "e", "t">>, <<"h", "a", "s", "P">>,
      <<"e", "x", "/">>, <<"e", "x", "#">> }
\* override tables: empty, one key, two keys; the name says which table it is
OverrideTables(name) ==
    { EmptyTable,
      [x \in {IriHasPet} |-> name],
      [x \in {IriHasPet, IriFragment} |-> IF x = IriHasPet THEN name ELSE name \o <<"2">>] }
LookupMappings ==
    { Mapping(c2l, p2r, p2p) :
        c2l \in OverrideTables(<<"L", "b", "l">>),
        p2r \in OverrideTables(<<"R", "e", "l">>),
        p2p \in OverrideTables(<<"p", "r", "o", "p">>) }

InitMapping ==
    /\ ParserIdle
    /\ \E m \in LookupMappings, iri \in LookupIris :
          input = [format |-> "lookup", mapping |-> m, iri |-> iri]

\* mapping.label_for(iri)
LabelFor ==
    /\ input.format = "lookup" /\ output = <<>>
    /\ output' = [fn |-> "label_for", name |-> label_for(input.mapping, input.iri)]
    /\ UNCHANGED <<runner_vars, input>>

\* mapping.property_for(iri)
PropertyFor ==
    /\ input.format = "lookup" /\ output = <<>>
    /\ output' = [fn |-> "property_for", name |-> property_for(input.mapping, input.iri)]
    /\ UNCHANGED <<runner_vars, input>>

\* mapping.relationship_for(iri)
RelationshipFor ==
    /\ input.format = "lookup" /\ output = <<>>
    /\ output' = [fn |-> "relationship_for",
                  name |-> relationship_for(input.mapping, input.iri)]
    /\ UNCHANGED <<runner_vars, input>>

NextMapping ==
    \/ LabelFor
    \/ PropertyFor
    \/ RelationshipFor

SpecMapping == InitMapping /\ [][NextMapping]_vars

\* r is what follows the last occurrence of sep in iri
IsAfterLast(iri, sep, r) ==
    \E k \in 1..Len(iri) :
        /\ iri[k] = sep
        /\ r = SubSeq(iri, k + 1, Len(iri))
        /\ \A j \in 1..Len(r) : r[j] # sep
\* r is the default name of iri
IsDefaultName(iri, r) ==
    IF Contains(iri, "#") THEN IsAfterLast(iri, "#", r)
    ELSE IF Contains(iri, "/") THEN IsAfterLast(iri, "/", r)
    ELSE r = iri
\* name with "_" before each upper-case letter but the first, in upper case
RECURSIVE UpperSnake(_)
UpperSnake(name) ==
    IF name = <<>> THEN <<>>
    ELSE LET last == name[Len(name)]
         IN  UpperSnake(SubSeq(name, 1, Len(name) - 1))
             \o (IF Len(name) > 1 /\ IsUpperCh(last) THEN <<"_">> ELSE <<>>)
             \o <<UpperCh(last)>>
\* the override table a lookup owns
OwnTable(m, fn) ==
    CASE fn = "label_for" -> m.classes_to_labels
      [] fn = "property_for" -> m.predicates_to_properties
      [] fn = "relationship_for" -> m.predicates_to_relationships
LookedUp == input.format = "lookup" /\ output # <<>>

\* C17: each lookup returns the entry of its own override table when the
\* identifier is a key of it, whatever the other two tables hold, and otherwise
\* the default name: what follows the last "#", else what follows the last "/",
\* else the whole identifier, which relationship_for turns into upper snake case.
C17_OverrideElseDefaultName ==
    LookedUp
    => LET own == OwnTable(input.mapping, output.fn)
       IN  IF input.iri \in DOMAIN own THEN output.name = own[input.iri]
           ELSE IF output.fn = "relationship_for"
           THEN \E r \in {SubSeq(input.iri, k, Len(input.iri)) :
                            k \in 1..(Len(input.iri) + 1)} :
                    IsDefaultName(input.iri, r) /\ output.name = UpperSnake(r)
           ELSE IsDefaultName(input.iri, output.name)

\* C17 witness: relationship_for fell back on the convention for an identifier
\* that the other two tables override, and inserted an underscore.
C17_Witness ==
    /\ LookedUp /\ output.fn = "relationship_for"
    /\ input.iri = IriHasPet
    /\ input.iri \notin DOMAIN input.mapping.predicates_to_relationships
    /\ input.iri \in DOMAIN input.mapping.classes_to_labels
    /\ input.iri \in DOMAIN input.mapping.predicates_to_properties
    /\ output.name = <<"H", "A", "S", "_", "P", "E", "T">>

\* C17 witness for an override: label_for returned the entry of its table
C17_WitnessOverride ==
    /\ LookedUp /\ output.fn = "label_for"
    /\ input.iri \in DOMAIN input.mapping.classes_to_labels
    /\ output.name = input.mapping.classes_to_labels[input.iri]
    /\ output.name # local_name(input.iri)

\* ------------------------------------------------------------------------
\* sh:severity
\* ------------------------------------------------------------------------
\* the property shapes of the parsed SHACL schema
PropertyShapes ==
    Flatten([i \in 1..Len(input.schema.shapes) |-> input.schema.shapes[i].property])
\* every property shape of the schema declares sev (None: declares none)
AllDeclare(sev) ==
    /\ PropertyShapes # <<>>
    /\ \A i \in 1..Len(PropertyShapes) : PropertyShapes[i].severity = sev
\* the kinds of check a property shape gives rise to
PropertyShapeKinds ==
    ValueKinds \cup {"property_exists", "property_pair", "unique_lang",
                     "relationship_cardinality", "qualified_cardinality"}
IsPropertyShapeCheck(check) == check.type \in PropertyShapeKinds
PropertyShapeChecks == SelectSeq(output.checks, IsPropertyShapeCheck)
\* the severity a declared sh:severity stands for
MappedSeverity(sev) ==
    IF sev = None THEN "violation"
    ELSE IF Val(sev) = "sh:Warning" THEN "warning"
    ELSE IF Val(sev) = "sh:Info" THEN "info"
    ELSE "violation"
DeclaredSeverities == {None, Some(SH_Warning), Some(SH_Info), Some(SH_Violation)}
ParsedShacl == input.format = "shacl" /\ output # <<>>

\* C18 as stated: every Check emitted for a property shape carries the severity
\* its sh:severity maps to (warning, info, else violation), whatever its kind,
\* and violation when the property shape declares no sh:severity.
C18_EveryCheckCarriesMappedSeverity ==
    ParsedShacl
    => \A sev \in DeclaredSeverities :
          AllDeclare(sev)
          => \A i \in 1..Len(PropertyShapeChecks) :
                PropertyShapeChecks[i].severity = MappedSeverity(sev)

\* C18 amended: every Check emitted for a property shape carries the mapped
\* severity of its sh:severity, and violation without one, except the
\* unique-language acknowledgment, which is always of severity info.
C18_MappedSeverityButUniqueLang ==
    ParsedShacl
    => \A sev \in DeclaredSeverities :
          AllDeclare(sev)
          => \A i \in 1..Len(PropertyShapeChecks) :
                PropertyShapeChecks[i].severity
                    = IF PropertyShapeChecks[i].type = "unique_lang" THEN "info"
                      ELSE MappedSeverity(sev)

\* C18 witness: a schema whose property shapes declare sh:Info was parsed into
\* checks of several kinds, a relationship cardinality among them, all info.
C18_Witness ==
    /\ ParsedShacl /\ AllDeclare(Some(SH_Info))
    /\ \E i, j \in 1..Len(PropertyShapeChecks) :
          /\ PropertyShapeChecks[i].type = "relationship_cardinality"
          /\ PropertyShapeChecks[j].type = "property_type"
          /\ PropertyShapeChecks[i].severity = "info"
          /\ PropertyShapeChecks[j].severity = "info"

\* C18 witness for the exception: a property shape that declares sh:Warning
\* and sh:uniqueLang gave a warning check and an info acknowledgment.
C18_WitnessUniqueLang ==
    /\ ParsedShacl /\ AllDeclare(Some(SH_Warning))
    /\ \E i, j \in 1..Len(PropertyShapeChecks) :
          /\ PropertyShapeChecks[i].type = "unique_lang"
          /\ PropertyShapeChecks[i].severity = "info"
          /\ PropertyShapeChecks[j].type = "property_pattern"
          /\ PropertyShapeChecks[j].severity = "warning"

\* ------------------------------------------------------------------------
\* qualified cardinality
\* ------------------------------------------------------------------------
\* value v satisfies the nested filter of a qualified-cardinality check
SatisfiesFilter(filter, v) ==
    CASE filter.type = "property_type" ->
             \/ Val(filter.expected_type) = T_integer /\ v.py = "int"
             \/ Val(filter.expected_type) = T_string /\ v.py = "str"
      [] filter.type = "property_value_in" ->
             \E i \in 1..Len(Val(filter.allowed_values)) :
                 /\ Val(filter.allowed_values)[i].py = v.py
                 /\ Val(filter.allowed_values)[i].v = v.v
\* the number of values of the attribute, in element e, that satisfy the filter
QualifiedCount(check, e) ==
    LET vals == ValuesOf(e, Join(Val(check.property)))
    IN  Cardinality({i \in 1..Len(vals) : SatisfiesFilter(Val(check.qualified_filter), vals[i])})
\* that number is outside the bounds of the check
OutsideQualifiedBounds(check, e) ==
    \/ ~IsNone(check.qualified_min) /\ QualifiedCount(check, e) < Val(check.qualified_min)
    \/ ~IsNone(check.qualified_max) /\ QualifiedCount(check, e) > Val(check.qualified_max)

\* the value the query binds qcount to: the size of a list that is [1] when
\* both CASE conditions are true and [] otherwise
QCountOf(text, e) ==
    LET present == Between(text, "WITH n, size([x IN CASE WHEN", "THEN")
        filter == Between(text, "CASE WHEN", "THEN [1] ELSE [] END")
    IN  IF Eval3(present, e) = "T" /\ Eval3(filter, e) = "T" THEN 1 ELSE 0
\* the filter of the query, a disjunction of comparisons of qcount, for qcount = k
CountFilterHolds(where, k) ==
    \E i \in 1..(Len(where) - 2) :
        /\ where[i] = "qcount"
        /\ Compare3(<<PyInt(k)>>, where[i + 1], NumberOf(where[i + 2])) = "T"
QualifiedFlagged(text, e) == CountFilterHolds(WhereClause(text), QCountOf(text, e))

\* C19: the query of a qualified-cardinality check returns an element exactly
\* when the number of the element's values of the attribute that satisfy the
\* nested filter is below qualified_min or above qualified_max, for every pair
\* of bounds; with neither bound the check compiles to a no-op marker.
C19_FlagsCountOutsideBounds ==
    (CompiledCheck /\ IsQualifiedCheck(input.check))
    => IF IsNone(input.check.qualified_min) /\ IsNone(input.check.qualified_max)
       THEN ~Executable(output.text)
       ELSE /\ Executable(output.text)
            /\ \A e \in Elements :
                  QualifiedFlagged(output.text, e) <=> OutsideQualifiedBounds(input.check, e)

\* ------------------------------------------------------------------------
\* logical combinators
\* ------------------------------------------------------------------------
\* elements whose attributes are missing or hold one value
ScalarElements == {e \in Elements : \A a \in AttrNames : Len(ValuesOf(e, a)) <= 1}
\* the bound is not set or the number meets it
MeetsBound(bound, holds(_)) == IsNone(bound) \/ holds(Val(bound))
\* Element e satisfies the sub-check: its value of the attribute meets the
\* constraint of the sub-check.  An element without the attribute fails an
\* existence sub-check; whether it satisfies another sub-check is the reading
\* if_missing (FALSE: a value is required, TRUE: nothing is there to violate).
Satisfied(sub, e, if_missing) ==
    LET vals == ValuesOf(e, Join(Val(sub.property)))
    IN  IF vals = <<>> THEN sub.type # "property_exists" /\ if_missing
        ELSE CASE sub.type = "property_exists" -> TRUE
               [] sub.type = "property_type" ->
                      \/ Val(sub.expected_type) = T_integer /\ vals[1].py = "int"
                      \/ Val(sub.expected_type) = T_string /\ vals[1].py = "str"
               [] sub.type = "property_range" ->
                      /\ vals[1].py = "int"
                      /\ MeetsBound(sub.min_inclusive, LAMBDA b : vals[1].v >= b)
                      /\ MeetsBound(sub.max_inclusive, LAMBDA b : vals[1].v <= b)
                      /\ MeetsBound(sub.min_exclusive, LAMBDA b : vals[1].v > b)
                      /\ MeetsBound(sub.max_exclusive, LAMBDA b : vals[1].v < b)
\* the number of sub-checks of the combinator that e satisfies
SatisfiedCount(check, e, if_missing) ==
    Cardinality({i \in 1..Len(Val(check.sub_checks)) :
                    Satisfied(Val(check.sub_checks)[i], e, if_missing)})

\* the value the exactly-one-of query binds satisfied_count to: the number of
\* its CASE expressions whose condition is true
RECURSIVE CaseCount(_, _, _)
CaseCount(text, from, e) ==
    LET i == FirstAt(text, "CASE WHEN", from)
        j == FirstAt(text, "THEN 1 ELSE 0 END", i + 1)
    IN  IF i = 0 THEN 0
        ELSE (IF Eval3(SubSeq(text, i + 1, j - 1), e) = "T" THEN 1 ELSE 0)
             + CaseCount(text, j + 1, e)
\* the query of a combinator returns element e
CombinatorFlagged(check, text, e) ==
    IF check.type = "logical_xone"
    THEN WhereClause(text) = <<"satisfied_count <> 1">> /\ CaseCount(text, 1, e) # 1
    ELSE Flagged(text, e)
IsCombinator(check) ==
    /\ check.type \in {"logical_and", "logical_or", "logical_xone"}
    /\ ~NoSubChecks(check)

\* the query agrees with the truth table of the combinator on every element
TruthTableHolds(check, text, if_missing) ==
    \A e \in ScalarElements :
        LET n == Len(Val(check.sub_checks))
            k == SatisfiedCount(check, e, if_missing)
        IN  CombinatorFlagged(check, text, e)
                <=> CASE check.type = "logical_and" -> k < n
                      [] check.type = "logical_or" -> k = 0
                      [] check.type = "logical_xone" -> k # 1

\* C20: the query of a combinator over n >= 1 sub-checks returns an element by
\* the truth table of its kind: AND when the element fails at least one
\* sub-check, OR when it satisfies none, exactly-one-of when the number of
\* sub-checks it satisfies is not 1; under either reading of a sub-check on a
\* missing attribute.
C20_CombinatorTruthTable ==
    (CompiledCheck /\ IsCombinator(input.check))
    => \E if_missing \in BOOLEAN :
          TruthTableHolds(input.check, output.text, if_missing)

\* a NOT combinator with at least one sub-check
IsNegation(check) == check.type = "logical_not" /\ ~NoSubChecks(check)
\* the query returns exactly the elements that satisfy every sub-check
FlagsWholeShape(check, text, if_missing) ==
    \A e \in ScalarElements :
        Flagged(text, e)
            <=> SatisfiedCount(check, e, if_missing) = Len(Val(check.sub_checks))

\* C29: the query of a NOT combinator over n >= 1 sub-checks returns an element
\* exactly when the element satisfies all n sub-checks of the negated shape,
\* under either reading of a sub-check on a missing attribute.
C29_NotFlagsWholeNegatedShape ==
    (CompiledCheck /\ IsNegation(input.check))
    => \E if_missing \in BOOLEAN : FlagsWholeShape(input.check, output.text, if_missing)

\* ------------------------------------------------------------------------
\* the runner: population counts, order of the queries and the tallies
\* ------------------------------------------------------------------------
\* a population query that came back with the count cnt
Counted(query, cnt) ==
    \E k \in 1..Len(session_log) :
        /\ session_log[k].kind = "count" /\ session_log[k].query = query
        /\ session_log[k].error = "" /\ session_log[k].records = <<[cnt |-> cnt]>>
\* the type has an instance, and none with the attribute populated
Unpopulated(label, prop) ==
    Counted(LabelCountQuery(label), 1) /\ Counted(PropCountQuery(label, prop), 0)

\* C21: a value check (type, enumerated value, pattern, string length, range,
\* property pair) whose target type has an instance but no instance with the
\* attribute populated is reported vacuous and its query is not executed; an
\* existence check on a type that has an instance is not vacuous and its query
\* is executed, whatever the count of the attribute.
C21_UnpopulatedAttributeIsVacuous ==
    \A i \in 1..Len(results) :
        LET c == compiled[i].check
        IN  /\ (c.type \in {"property_type", "property_value_in", "property_pattern",
                            "property_string_length", "property_range", "property_pair"}
                /\ ~IsNone(c.property)
                /\ Unpopulated(c.target_label, Val(c.property)))
               => /\ results[i].vacuous /\ ~results[i].passed
                  /\ RunsOf(i) = {}
            /\ (c.type = "property_exists" /\ Counted(LabelCountQuery(c.target_label), 1))
               => /\ ~results[i].vacuous
                  /\ Cardinality(RunsOf(i)) = 1

\* C21 witness: in a returned report a range check on A.q is vacuous while the
\* existence check on A.p ran, A having an instance and neither attribute a value.
C21_Witness ==
    /\ Reported
    /\ Len(ret.results) = 2
    /\ ret.results[1].check_type = "property_range" /\ ret.results[1].vacuous
    /\ Unpopulated(LabelA, PropQ)
    /\ ret.results[2].check_type = "property_exists" /\ ~ret.results[2].vacuous
    /\ RunsOf(1) = {} /\ RunsOf(2) # {}

\* C21 witness on one attribute: the type check on A.p is vacuous and the
\* existence check on A.p ran.
C21_WitnessSameAttribute ==
    /\ Reported
    /\ Unpopulated(LabelA, PropP)
    /\ \E i, j \in 1..Len(ret.results) :
          /\ ret.results[i].check_type = "property_type" /\ ret.results[i].vacuous
          /\ ret.results[j].check_type = "property_exists" /\ RunsOf(j) # {}

\* the session.run calls that issued the query
Issued(query) == {k \in 1..Len(session_log) : session_log[k].query = query}
\* the (type, attribute) pairs of the value checks of the plan
ValuePairs ==
    {<<plan.checks[i].target_label, Val(plan.checks[i].property)>> :
        i \in {j \in 1..Len(plan.checks) :
                  /\ plan.checks[j].type \in PROPERTY_VACUOUS_TYPES
                  /\ ~IsNone(plan.checks[j].property)}}
\* the declared types of the plan
DeclaredLabels == {label_for(plan.mapping, plan.shapes[i]) : i \in 1..Len(plan.shapes)}
\* the pre-flight is over: a check has been processed or the report returned
PreflightOver == results # <<>> \/ Reported \/ RunsOf(1) # {}

\* C22: every population query precedes the first check query; each population
\* query is an instance count of a declared type or a non-null count of a
\* (type, attribute) pair of a value check; no population query is issued twice,
\* however many checks share the type or the attribute; once the checks are being
\* processed each declared type has been counted exactly once; and no non-null
\* count is issued for a pair whose type was counted empty.
C22_PopulationCountedOnceUpFront ==
    /\ \A k, l \in 1..Len(session_log) :
          (k < l /\ session_log[k].kind = "check") => session_log[l].kind = "check"
    /\ \A k \in 1..Len(session_log) :
          session_log[k].kind = "count"
          => \/ \E label \in DeclaredLabels :
                   session_log[k].query = LabelCountQuery(label)
             \/ \E lp \in ValuePairs :
                   session_log[k].query = PropCountQuery(lp[1], lp[2])
    /\ \A label \in DeclaredLabels :
          /\ Cardinality(Issued(LabelCountQuery(label))) <= 1
          /\ PreflightOver => Cardinality(Issued(LabelCountQuery(label))) = 1
    /\ \A lp \in ValuePairs :
          /\ Cardinality(Issued(PropCountQuery(lp[1], lp[2]))) <= 1
          /\ Counted(LabelCountQuery(lp[1]), 0)
                => Issued(PropCountQuery(lp[1], lp[2])) = {}

\* C22 witness: two value checks on A.p were both executed after one non-null
\* count of A.p and one instance count of each of the two declared types.
C22_Witness ==
    /\ Reported
    /\ Len(plan.checks) = 2
    /\ \A i \in 1..2 : plan.checks[i].type = "property_type" /\ RunsOf(i) # {}
    /\ Cardinality(Issued(PropCountQuery(LabelA, PropP))) = 1
    /\ Cardinality({k \in 1..Len(session_log) : session_log[k].kind = "count"}) = 3

\* C22 witness for the empty type: a value check on A.p is in the plan, A was
\* counted empty and the non-null count of A.p was never issued.
C22_WitnessEmptyType ==
    /\ Reported
    /\ <<LabelA, PropP>> \in ValuePairs
    /\ Counted(LabelCountQuery(LabelA), 0)
    /\ Issued(PropCountQuery(LabelA, PropP)) = {}

\* the log positions of the check queries
CheckQueries == {k \in 1..Len(session_log) : session_log[k].kind = "check"}

\* C23: the check queries are issued in plan order and none twice, each being the
\* compiled query of its check; the results follow the plan entry by entry, the
\* i-th result stating the outcome of the i-th check: failed with the error when
\* its query raised, passed exactly when its query returned no record, and
\* vacuous or passed without a query otherwise; the report holds one result per
\* check of the plan.
C23_PlanOrderOnceEach ==
    /\ \A k, l \in CheckQueries : k < l => session_log[k].idx < session_log[l].idx
    /\ \A k \in CheckQueries :
          /\ session_log[k].idx \in 1..Len(plan.checks)
          /\ session_log[k].query = compiled[session_log[k].idx].query
    /\ Len(results) <= Len(plan.checks)
    /\ \A i \in 1..Len(results) :
          /\ results[i].check_id = plan.checks[i].id
          /\ results[i].check_type = plan.checks[i].type
          /\ results[i].query = compiled[i].query
          /\ Cardinality(RunsOf(i)) <= 1
          /\ \A k \in RunsOf(i) :
                IF session_log[k].error # ""
                THEN /\ Failed(results[i])
                     /\ results[i].message
                            = "Query execution failed: " \o session_log[k].error
                ELSE /\ results[i].passed <=> session_log[k].records = <<>>
                     /\ Len(results[i].violating_nodes) = Len(session_log[k].records)
                     /\ ~results[i].vacuous
          /\ RunsOf(i) = {} => (results[i].vacuous \/ results[i].passed)
    /\ Reported =>
          /\ ret.results = results
          /\ Len(ret.results) = Len(plan.checks)
          /\ ret.summary.checks_total = Len(plan.checks)

\* C23 witness: the query of the first of two different checks raised, it was not
\* issued again, the query of the second check ran after it and the report has
\* the two results in plan order.
C23_Witness ==
    /\ Reported
    /\ Len(plan.checks) = 2 /\ plan.checks[1].id # plan.checks[2].id
    /\ \E k, l \in CheckQueries :
          /\ k < l
          /\ session_log[k].idx = 1 /\ session_log[k].error # ""
          /\ session_log[l].idx = 2 /\ session_log[l].records # <<>>
    /\ ret.results[1].check_id = plan.checks[1].id
    /\ ret.results[2].check_id = plan.checks[2].id

\* C26: every check that has been processed is counted in exactly one of the
\* five totals, and in every report checks_passed + checks_vacuous + violations
\* + warnings + info = checks_total = number of checks of the plan = length of
\* results.
C26_TalliesPartitionTheChecks ==
    /\ passed_total + vacuous_total + violations_total + warnings_total + info_total
          = Len(results)
    /\ Reported =>
          /\ ret.summary.checks_passed + ret.summary.checks_vacuous
                + ret.summary.violations + ret.summary.warnings + ret.summary.info
                = ret.summary.checks_total
          /\ ret.summary.checks_total = Len(plan.checks)
          /\ ret.summary.checks_total = Len(ret.results)

\* C26 witness: a report of two checks, one set aside as vacuous and one failed
\* as a warning.
C26_Witness ==
    /\ Reported
    /\ ret.summary.checks_total = 2
    /\ ret.summary.checks_vacuous = 1 /\ ret.summary.warnings = 1
    /\ ret.summary.checks_passed = 0 /\ ret.summary.violations = 0

\* C27 as stated: no result is both passed and vacuous, a vacuous result lists
\* no violating element, a no-op check on an empty population is vacuous and not
\* passed, and every check counted as passed has a target type that was counted
\* to have an instance.
C27_PassedOnlyWithAnInstance ==
    \A i \in 1..Len(results) :
        /\ ~(results[i].passed /\ results[i].vacuous)
        /\ results[i].vacuous => results[i].violating_nodes = <<>>
        /\ (CommentOnly(compiled[i].query) /\ results[i].target_label \in empty_labels)
           => results[i].vacuous /\ ~results[i].passed
        /\ results[i].passed => Counted(LabelCountQuery(results[i].target_label), 1)

\* C27 amended: no result is both passed and vacuous; a vacuous result lists no
\* violating element; a no-op check whose target type was counted empty is
\* vacuous and not passed; a result counted as passed is either a check whose
\* query ran and returned nothing or a no-op check that is not vacuous; and its
\* target type was counted to have an instance when the check targets a declared
\* type and is not the empty-population check.
C27_PassedExcludesVacuous ==
    /\ \A i \in 1..Len(results) :
          /\ ~(results[i].passed /\ results[i].vacuous)
          /\ results[i].vacuous => results[i].violating_nodes = <<>>
          /\ (CommentOnly(compiled[i].query)
              /\ results[i].target_label \in empty_labels)
             => results[i].vacuous /\ ~results[i].passed
          /\ results[i].passed =>
                \/ \E k \in RunsOf(i) :
                      session_log[k].error = "" /\ session_log[k].records = <<>>
                \/ /\ CommentOnly(compiled[i].query)
                   /\ results[i].target_label \notin empty_labels
          /\ (results[i].passed /\ results[i].target_label \in DeclaredLabels
              /\ results[i].check_type # "empty_shape")
             => Counted(LabelCountQuery(results[i].target_label), 1)
    /\ passed_total = Cardinality({i \in 1..Len(results) : results[i].passed})
    /\ Reported =>
          ret.summary.checks_passed
             = Cardinality({i \in 1..Len(ret.results) : ret.results[i].passed})

\* C27 witness: a report in which a no-op check on an empty type is vacuous and
\* another no-op check, on a type with an instance, is passed.
C27_Witness ==
    /\ Reported
    /\ \E i, j \in 1..Len(ret.results) :
          /\ CommentOnly(compiled[i].query) /\ CommentOnly(compiled[j].query)
          /\ ret.results[i].vacuous /\ ~ret.results[i].passed
          /\ ret.results[i].target_label \in empty_labels
          /\ ret.results[j].passed /\ ~ret.results[j].vacuous
    /\ ret.summary.checks_passed = 1 /\ ret.summary.checks_vacuous = 1

\* C27 witness for the graph-wide check: both declared types were counted empty,
\* the undeclared-labels check ran, returned nothing and is counted as passed.
C27_WitnessGraphWide ==
    /\ Reported
    /\ empty_labels = DeclaredLabels
    /\ \E i \in 1..Len(ret.results) :
          /\ ret.results[i].check_type = "undeclared_labels"
          /\ ret.results[i].target_label = "*"
          /\ ret.results[i].passed
    /\ ret.summary.checks_passed = 1

\* C28: execute_plan returns a report for every plan whose checks all compile,
\* whatever queries fail: no failure of a session.run call, of a population
\* count or of a check, leaves execute_plan as an exception.
C28_NoQueryFailureEscapes ==
    (op = "execute_plan" /\ pc = "done" /\ compile_plan(plan, backend).ok)
    => /\ exc = NoException
       /\ ret # NoReport
       /\ Len(ret.results) = Len(plan.checks)

\* ------------------------------------------------------------------------
\* execute_plan against a database that answers each query the same way
\* ------------------------------------------------------------------------
\* A database is a record of three functions: the instance count of each
\* declared type (a negative count stands for a query that raises), the non-null
\* count of each (type, attribute) pair, and for each check query 0 when it
\* raises, else the position in RecordLists of the records it returns.
NoTallies ==
    [violations |-> 0, warnings |-> 0, info |-> 0, checks_passed |-> 0,
     checks_vacuous |-> 0]
\* the tally that one turn of the loop over compiled adds one to
TallyOf(entry, empty_l, empty_p, db) ==
    LET vacuous == is_vacuous(entry.check, empty_l, empty_p)
    IN  IF StartsWithComment(entry.query)
        THEN (IF vacuous THEN "checks_vacuous" ELSE "checks_passed")
        ELSE IF vacuous THEN "checks_vacuous"
        ELSE IF db.answers[entry.query] = 0 THEN "violations"
        ELSE IF Len(RecordLists[db.answers[entry.query]]) = 0 THEN "checks_passed"
        ELSE IF entry.check.severity = VIOLATION THEN "violations"
        ELSE IF entry.check.severity = WARNING THEN "warnings"
        ELSE "info"
RECURSIVE TalliesUntilViolation(_, _, _, _, _)
\* the totals of a loop that stops counting at the first violation
TalliesUntilViolation(comp, n, empty_l, empty_p, db) ==
    IF n = 0 THEN NoTallies
    ELSE LET before == TalliesUntilViolation(comp, n - 1, empty_l, empty_p, db)
             t == TallyOf(comp[n], empty_l, empty_p, db)
         IN  IF before.violations > 0 THEN before ELSE [before EXCEPT ![t] = @ + 1]
RECURSIVE Tallies(_, _, _, _, _)
\* the totals after the first n turns of the loop
Tallies(comp, n, empty_l, empty_p, db) ==
    IF n = 0 THEN NoTallies
    ELSE LET before == Tallies(comp, n - 1, empty_l, empty_p, db)
             t == TallyOf(comp[n], empty_l, empty_p, db)
         IN  [before EXCEPT ![t] = @ + 1]
\* execute_plan(plan, backend, driver): conforms and summary of the report, or
\* the exception that leaves it
execute_plan(p, b, db) ==
    LET c == compile_plan(p, b)
        comp == c.text
        labels == declared_labels(p)
        empty_l == {l \in labels : db.labels[l] = 0}
        asked == {lp \in label_props(comp) : lp[1] \notin empty_l}
        empty_p == {lp \in asked : db.props[lp] = 0}
        totals == Tallies(comp, Len(comp), empty_l, empty_p, db)
    IN  IF ~c.ok THEN c
        ELSE IF \E l \in labels : db.labels[l] < 0 THEN Raised("ServiceUnavailable")
        ELSE IF \E lp \in asked : db.props[lp] < 0 THEN Raised("ServiceUnavailable")
        ELSE Compiled([conforms |-> totals.violations = 0,
                       summary |-> [violations |-> totals.violations,
                                    warnings |-> totals.warnings,
                                    info |-> totals.info,
                                    checks_passed |-> totals.checks_passed,
                                    checks_vacuous |-> totals.checks_vacuous,
                                    checks_total |-> Len(comp)]])

\* the plans of two or more different checks, one per set of checks
PermutePlans ==
    {ValidationPlan("<string>", [i \in 1..Len(q) |-> CheckPool[q[i]]], <<IriA, IriB>>,
                    Mapping(EmptyTable, EmptyTable, EmptyTable)) :
        q \in {r \in SeqsUpTo(MaxPlanLen, Len(CheckPool)) :
                  Len(r) >= 2 /\ \A i \in 1..(Len(r) - 1) : r[i] < r[i + 1]}}
\* the reorderings of a plan of n checks
Reorderings(n) ==
    {f \in [1..n -> 1..n] : (\A i, j \in 1..n : f[i] = f[j] => i = j)
                            /\ \E i \in 1..n : f[i] # i}
Permuted(p, f) == [p EXCEPT !.checks = [i \in 1..Len(p.checks) |-> p.checks[f[i]]]]
\* the databases that answer the queries execute_plan may issue for the plan
Databases(p, b) ==
    LET c == compile_plan(p, b)
        labels == declared_labels(p)
        pairs == IF c.ok THEN label_props(c.text) ELSE {}
        queries == IF c.ok
                   THEN {c.text[i].query :
                            i \in {j \in 1..Len(c.text) :
                                      ~StartsWithComment(c.text[j].query)}}
                   ELSE {}
    IN  {[labels |-> l, props |-> pr, answers |-> a] :
            l \in [labels -> CountAnswers] \cup {[x \in labels |-> -1]},
            pr \in [pairs -> CountAnswers],
            a \in [queries -> 0..(Len(RecordLists) - 1)]}

InitPermute ==
    /\ ParserIdle
    /\ \E p \in PermutePlans, b \in Backends :
          \E db \in Databases(p, b), f \in Reorderings(Len(p.checks)) :
             input = [format |-> "plan", plan |-> p, backend |-> b, db |-> db,
                      permutation |-> f]

\* execute_plan on the plan as given and on the reordered plan
ExecuteBoth ==
    /\ input.format = "plan" /\ output = <<>>
    /\ output' = [order \in {"given", "permuted"} |->
                     execute_plan(IF order = "given" THEN input.plan
                                  ELSE Permuted(input.plan, input.permutation),
                                  input.backend, input.db)]
    /\ UNCHANGED <<runner_vars, input>>

NextPermute == ExecuteBoth

SpecPermute == InitPermute /\ [][NextPermute]_vars

\* C24: against one database, execute_plan on a plan and on any reordering of
\* its checks returns reports with the same conforms and the same summary counts
\* (or both raise).
C24_SummaryIsOrderIndependent ==
    (input.format = "plan" /\ output # <<>>)
    => /\ output.given.ok = output.permuted.ok
       /\ output.given.ok =>
             /\ output.given.text.conforms = output.permuted.text.conforms
             /\ output.given.text.summary = output.permuted.text.summary

\* C24 witness: two checks of different severity and outcome were swapped: one
\* failed as a warning, the other passed, and both reports count one of each.
C24_Witness ==
    /\ input.format = "plan" /\ output # <<>>
    /\ input.plan.checks[1].severity # input.plan.checks[2].severity
    /\ input.permutation[1] = 2
    /\ output.given.ok /\ output.permuted.ok
    /\ output.permuted.text.summary.warnings = 1
    /\ output.permuted.text.summary.checks_passed = 1
    /\ output.permuted.text.conforms

\* C24 witness with a failure of a query: the reports of both orders count it
\* as a violation and do not conform.
C24_WitnessFailure ==
    /\ input.format = "plan" /\ output # <<>>
    /\ output.given.ok /\ output.permuted.ok
    /\ \E q \in DOMAIN input.db.answers : input.db.answers[q] = 0
    /\ output.given.text.summary.violations = 1
    /\ output.given.text.summary.checks_vacuous = 1
    /\ ~output.permuted.text.conforms

\* ------------------------------------------------------------------------
\* _build_class_hierarchy and _collect_descendants, one call or return at a time
\* ------------------------------------------------------------------------
MaxEdges == 3
\* the deepest stack of _collect_descendants calls that is followed
MaxDepth == 5
HierarchyClasses == {IriA, IriB, IriC}
\* the rdfs:subClassOf triples of a graph, each <<sub, sup>>, in iteration order;
\* a graph holds a triple once
SubclassEdges ==
    {es \in UNION {[1..n -> HierarchyClasses \X HierarchyClasses] : n \in 0..MaxEdges} :
        \A i, j \in 1..Len(es) : es[i] = es[j] => i = j}
\* one call of _collect_descendants: its class, its result so far and the
\* position of its loop over the children
Frame(cls) == [cls |-> cls, result |-> <<cls>>, next |-> 1]

InitHierarchy ==
    /\ ParserIdle
    /\ \E es \in SubclassEdges :
          input = [format |-> "hierarchy",
                   subclass |-> es,
                   mapping |-> NoMapping,
                   pc |-> "build", todo |-> hierarchy_classes(es), hierarchy |-> <<>>,
                   stack |-> <<>>]

InHierarchy == input.format = "hierarchy" /\ input.pc = "build"
TopFrame == input.stack[Len(input.stack)]
TopChildren == children_of(input.subclass, TopFrame.cls)

\* "for cls in all_classes": _collect_descendants(cls, children) is called
CollectBegin ==
    /\ InHierarchy /\ input.stack = <<>>
    /\ \E cls \in input.todo :
          input' = [input EXCEPT !.todo = @ \ {cls}, !.stack = <<Frame(cls)>>]
    /\ UNCHANGED <<runner_vars, output>>

\* CollectCall with a visited-set guard: a class already on the stack is skipped
CollectCallGuarded ==
    /\ input.format = "hierarchy" /\ input.pc = "build"
    /\ input.stack # <<>>
    /\ LET top == input.stack[Len(input.stack)]
           kids == children_of(input.subclass, top.cls)
       IN  /\ top.next <= Len(kids)
           /\ Len(input.stack) < MaxDepth
           /\ IF \E k \in 1..Len(input.stack) : input.stack[k].cls = kids[top.next]
              THEN input' = [input EXCEPT !.stack[Len(input.stack)].next = @ + 1]
              ELSE input' = [input EXCEPT !.stack = Append(@, Frame(kids[top.next]))]
    /\ UNCHANGED <<runner_vars, output>>

\* "for child in children.get(cls, [])": the recursive call for the next child
CollectCall ==
    /\ InHierarchy /\ input.stack # <<>>
    /\ TopFrame.next <= Len(TopChildren)
    /\ Len(input.stack) < MaxDepth
    /\ input' = [input EXCEPT !.stack = Append(@, Frame(TopChildren[TopFrame.next]))]
    /\ UNCHANGED <<runner_vars, output>>

\* "return result": the caller extends its result, or the hierarchy gets the
\* labels of the descendants
CollectReturn ==
    /\ InHierarchy /\ input.stack # <<>>
    /\ TopFrame.next > Len(TopChildren)
    /\ LET n == Len(input.stack)
           rest == SubSeq(input.stack, 1, n - 1)
           descendants == TopFrame.result
       IN  IF n > 1
           THEN input' = [input EXCEPT
                    !.stack = [rest EXCEPT ![n - 1].result = @ \o descendants,
                                           ![n - 1].next = @ + 1]]
           ELSE input' = [input EXCEPT
                    !.stack = <<>>,
                    !.hierarchy = Append(@,
                        <<TopFrame.cls,
                          [i \in 1..Len(descendants) |->
                              label_for(input.mapping, descendants[i])]>>)]
    /\ UNCHANGED <<runner_vars, output>>

\* "return hierarchy": the closure is complete
BuildReturns ==
    /\ InHierarchy /\ input.stack = <<>> /\ input.todo = {}
    /\ input' = [input EXCEPT !.pc = "shapes"]
    /\ UNCHANGED <<runner_vars, output>>

\* the change of control when parse_shacl_to_plan returns
ReturnFromParse ==
    /\ input.format = "hierarchy" /\ input.pc = "shapes"
    /\ input' = [input EXCEPT !.pc = "returned"]

\* the rest of parse_shacl_to_plan, up to its return
ParseReturns ==
    /\ ReturnFromParse
    /\ output' = parse_shacl_to_plan([HierarchyShacl EXCEPT !.subclass = input.subclass],
                                     input.mapping, FALSE)
    /\ UNCHANGED runner_vars

NextHierarchy ==
    \/ CollectBegin
    \/ CollectCall
    \/ CollectReturn
    \/ BuildReturns
    \/ ParseReturns

\* the interpreter runs the next step of the parser whenever there is one; the
\* only step of NextHierarchy that changes control as ReturnFromParse does is
\* ParseReturns
SpecHierarchy ==
    /\ InitHierarchy /\ [][NextHierarchy]_vars
    /\ WF_input(CollectBegin \/ CollectCall \/ CollectReturn \/ BuildReturns)
    /\ WF_input(ReturnFromParse)

\* the direct subclasses of the classes of S
SubclassesOf(S, es) == {e[1] : e \in {x \in Range(es) : x[2] \in S}}
RECURSIVE DownwardClosure(_, _)
\* S with every class that is below a class of S
DownwardClosure(S, es) ==
    LET T == S \cup SubclassesOf(S, es)
    IN  IF T = S THEN S ELSE DownwardClosure(T, es)
\* the transitive subclasses of a class
StrictlyBelow(cls, es) == DownwardClosure(SubclassesOf({cls}, es), es)
HasCycle(es) == \E cls \in HierarchyClasses : cls \in StrictlyBelow(cls, es)
HierarchyBuilt == input.format = "hierarchy" /\ input.pc \in {"shapes", "returned"}
PlanReturned == input.format = "hierarchy" /\ input.pc = "returned" /\ output # <<>>
\* the hierarchy as built maps the class to itself and its transitive subclasses
ClosureOf(pair, es) ==
    Range(pair[2]) = {label_for(NoMapping, c) : c \in {pair[1]} \cup StrictlyBelow(pair[1], es)}

\* C25: when the subclass edges have no cycle the descent ends and
\* parse_shacl_to_plan returns a plan, the hierarchy mapping each class of an
\* edge to itself plus all its transitive subclasses; when they have a cycle
\* the descent goes on to any depth and no plan is ever returned.
C25_DescentEndsIffAcyclic ==
    /\ [](HierarchyBuilt =>
            /\ ~HasCycle(input.subclass)
            /\ {input.hierarchy[i][1] : i \in 1..Len(input.hierarchy)}
                   = hierarchy_classes(input.subclass)
            /\ \A i \in 1..Len(input.hierarchy) :
                   ClosureOf(input.hierarchy[i], input.subclass))
    /\ (~HasCycle(input.subclass)) ~> PlanReturned
    /\ HasCycle(input.subclass) ~> (Len(input.stack) = MaxDepth)

\* C25 witness: with C below B below A the plan was returned and A is mapped to
\* the three labels.
C25_Witness ==
    /\ PlanReturned
    /\ \E i \in 1..Len(input.hierarchy) :
          /\ input.hierarchy[i][1] = IriA
          /\ Range(input.hierarchy[i][2]) = {<<"A">>, <<"B">>, <<"C">>}
    /\ output.checks # <<>>

\* C25 witness for the cycle: A below B below A, and the descent is as deep as
\* it is followed, with A on the stack more than once.
C25_WitnessCycle ==
    /\ InHierarchy
    /\ input.subclass = << <<IriA, IriB>>, <<IriB, IriA>> >>
    /\ Len(input.stack) = MaxDepth
    /\ Cardinality({k \in 1..Len(input.stack) : input.stack[k].cls = IriA}) > 1

\* ------------------------------------------------------------------------
\* strict mode: the allow-list of the undeclared-properties check of a type
\* ------------------------------------------------------------------------
RECURSIVE AttributesRead(_, _)
\* the attribute names the query of a check reads on nodes of a label: its own
\* property, the comparison property of a property pair, and those of the
\* checks nested in it that target the same label
AttributesRead(check, label) ==
    LET Own(field) == IF check.target_label = label /\ ~IsNone(field)
                      THEN {Val(field)} ELSE {}
        nested == (IF IsNone(check.sub_checks) THEN {} ELSE Range(Val(check.sub_checks)))
                  \cup (IF IsNone(check.qualified_filter) THEN {}
                        ELSE {Val(check.qualified_filter)})
    IN  Own(check.property) \cup Own(check.compare_property)
        \cup UNION {AttributesRead(sub, label) : sub \in nested}

\* C30: in strict mode the allow-list of a declared type's undeclared-properties
\* check holds every attribute that a check of the plan reads on that type: the
\* property of each check, the comparison property of each property pair, and
\* the properties of the checks nested in combinators and qualified filters.
C30_AllowListCoversEveryAttributeRead ==
    (Parsed /\ input.strict)
    => \A c \in Range(output.checks) :
          c.type = "undeclared_properties"
          => \A d \in Range(output.checks) :
                AttributesRead(d, c.target_label) \subseteq Range(Val(c.allowed_properties))
====
